---- MODULE Spec2Model ----
(***************************************************************************)
(* A model of the mapper package: Map / MapWithOptions and the recursive   *)
(* assignment engine (runMapping, assignValue, assignStruct,               *)
(* assignNestedValue, assignSlice, assignMap, assignPointerElement), the   *)
(* struct metadata index and the string conversion.                        *)
(*                                                                         *)
(* Go values live in a heap: a pointer, a slice and a map are addresses    *)
(* (0 is nil) of heap objects (a cell, a backing array, a table); a struct *)
(* is an inline record.  A reflect.Value is a location: a heap address and *)
(* a path of selectors into the object at that address.                    *)
(***************************************************************************)
EXTENDS Integers, Sequences, FiniteSets, TLC

VARIABLES
  heap,   \* the heap: the sequence of objects, by address
  heap0,  \* the heap when the call was made
  snap,   \* the heap when the call returned
  cache,  \* structMetaCache
  dstI,   \* the dst argument (an interface value)
  srcI,   \* the src argument (an interface value)
  opts,   \* the options of the call
  err,    \* what the call returned
  pc,     \* "ready", "done" (the call returned), "mutated" (a later write)
  mut,    \* the write made after the call: the side written and the address
  smap,   \* structMetaCache as goroutines share it: key -> pointer to a structMeta
  gor,    \* the goroutines that call getStructMeta concurrently
  rw      \* the two-level cache guarded by RWMutexes: typeCache and the locks

vars == <<heap, heap0, snap, cache, dstI, srcI, opts, err, pc, mut, smap, gor, rw>>

(***************************************************************************)
(* Bounds of the model.                                                    *)
(***************************************************************************)
\* largest depth limit handed to WithMaxDepth in the depth scenarios; the
\* nested structures built for them have up to MaxD composites below the root
MaxD == 3
\* the field tables are iterated from any of the first MaxRot starting points
MaxRot == 4

(***************************************************************************)
(* Types (reflect.Type).  A type is a record whose field k is its kind.    *)
(***************************************************************************)
TInt == [k |-> "int"]
TInt8 == [k |-> "int8"]
TInt32 == [k |-> "int32"]
TInt64 == [k |-> "int64"]
TUint8 == [k |-> "uint8"]
TFloat64 == [k |-> "float64"]
TString == [k |-> "string"]
TBool == [k |-> "bool"]
SliceOf(T) == [k |-> "slice", e |-> T]
PtrTo(T) == [k |-> "ptr", e |-> T]
MapOf(K, V) == [k |-> "map", key |-> K, e |-> V]
StructT(n) == [k |-> "struct", n |-> n, ft |-> [k |-> "none"]]
\* the generic struct  type Wrap[T any] struct { F T }  instantiated at T
WrapT(T) == [k |-> "struct", n |-> "Wrap", ft |-> T]

Kind(T) == T.k

\* the value of an expression, bound to a variable (q \in {e}) so that it is
\* evaluated once: the element of a singleton
The(S) == CHOOSE x \in S : TRUE

SignedKinds == {"int", "int8", "int16", "int32", "int64"}
UnsignedKinds == {"uint", "uint8", "uint16", "uint32", "uint64"}
FloatKinds == {"float32", "float64"}
IntegerKinds == SignedKinds \cup UnsignedKinds
NumericKinds == IntegerKinds \cup FloatKinds

\* reflect.Type.Bits for the integer kinds (int and uint are 64 bits wide)
Bits(k) ==
  CASE k \in {"int8", "uint8"} -> 8
    [] k \in {"int16", "uint16"} -> 16
    [] k \in {"int32", "uint32"} -> 32
    [] OTHER -> 64

Pow2(n) == 2 ^ n

\* the kinds the engine treats as composite (struct, slice, map, pointer)
IsCompositeKind(k) == k \in {"struct", "slice", "map", "ptr"}

RECURSIVE TypeString(_)
\* reflect.Type.String()
TypeString(T) ==
  CASE Kind(T) = "slice" -> "[]" \o TypeString(T.e)
    [] Kind(T) = "ptr" -> "*" \o TypeString(T.e)
    [] Kind(T) = "map" -> "map[" \o TypeString(T.key) \o "]" \o TypeString(T.e)
    [] Kind(T) = "struct" /\ T.n = "Wrap" -> "mapper.Wrap[" \o TypeString(T.ft) \o "]"
    [] Kind(T) = "struct" -> "mapper." \o T.n
    [] OTHER -> Kind(T)

(***************************************************************************)
(* The struct types of the programs mapped.  A field is its name, type,    *)
(* whether it is exported, its tags (by tag key) and its mapconv tag.      *)
(***************************************************************************)
NoTags == [map |-> "", json |-> ""]
Fld(n, t) == [n |-> n, t |-> t, x |-> TRUE, tag |-> NoTags, conv |-> ""]
Priv(n, t) == [n |-> n, t |-> t, x |-> FALSE, tag |-> NoTags, conv |-> ""]
Tagged(n, t, m, j) == [n |-> n, t |-> t, x |-> TRUE, tag |-> [map |-> m, json |-> j], conv |-> ""]
Conv(n, t, c) == [n |-> n, t |-> t, x |-> TRUE, tag |-> NoTags, conv |-> c]

NamedFields(n) ==
  CASE n = "User" -> <<Fld("Name", TString), Fld("Email", TString), Fld("Age", TInt)>>
    [] n = "UserDTO" -> <<Fld("Name", TString), Fld("Email", TString), Fld("Age", TInt)>>
    [] n = "Partial" -> <<Fld("Name", TString)>>
    [] n = "AliasSrc" -> <<Tagged("FullName", TString, "Name", ""), Fld("Email", TString),
                           Tagged("Contact", TString, "Email", "Name"),
                           Tagged("YearsOld", TInt, "Age", "Age")>>
    [] n = "Upper" -> <<Fld("NAME", TString), Fld("Age", TInt)>>
    [] n = "TaggedDst" -> <<Tagged("Title", TString, "Name", "Name"), Fld("Age", TInt)>>
    [] n = "ConvInt" -> <<Conv("V", TString, "int")>>
    [] n = "ConvInt8" -> <<Conv("V", TString, "int8")>>
    [] n = "ConvUint8" -> <<Conv("V", TString, "uint8")>>
    [] n = "ConvBool" -> <<Conv("V", TString, "bool")>>
    [] n = "ConvFloat" -> <<Conv("V", TString, "float64")>>
    [] n = "ConvText" -> <<Conv("V", TString, "text")>>
    [] n = "ConvPtr" -> <<Conv("V", PtrTo(TString), "int")>>
    [] n = "DInt" -> <<Fld("V", TInt)>>
    [] n = "DInt8" -> <<Fld("V", TInt8)>>
    [] n = "DStr" -> <<Fld("V", TString)>>
    [] n = "DBool" -> <<Fld("V", TBool)>>
    [] n = "Coll" -> <<Fld("Nums", SliceOf(TInt32)), Fld("Tags", SliceOf(TString)),
                       Fld("M", MapOf(TString, TInt32))>>
    [] n = "CollD" -> <<Fld("Nums", SliceOf(TInt64)), Fld("Tags", SliceOf(TString)),
                        Fld("M", MapOf(TString, TInt64))>>
    [] n = "Inner" -> <<Fld("ID", TInt), Fld("Vals", SliceOf(TInt32))>>
    [] n = "InnerD" -> <<Fld("ID", TInt64), Fld("Vals", SliceOf(TInt32)), Fld("Extra", TString)>>
    [] n = "Outer" -> <<Fld("In", StructT("Inner")), Fld("P", PtrTo(StructT("Inner"))),
                        Fld("Items", SliceOf(StructT("Inner"))),
                        Fld("ByKey", MapOf(TString, PtrTo(StructT("Inner"))))>>
    [] n = "OuterD" -> <<Fld("In", StructT("InnerD")), Fld("P", PtrTo(StructT("InnerD"))),
                         Fld("Items", SliceOf(StructT("InnerD"))),
                         Fld("ByKey", MapOf(TString, PtrTo(StructT("InnerD"))))>>
    [] n = "Hidden" -> <<Fld("ID", TInt), Priv("data", SliceOf(TInt32))>>
    [] n = "HOuter" -> <<Fld("H", StructT("Hidden")), Fld("N", TInt)>>
    [] n = "HOuterD" -> <<Fld("H", StructT("Hidden")), Fld("N", TInt)>>
    [] n = "Node" -> <<Fld("Val", TInt), Fld("Next", PtrTo(StructT("Node")))>>
    [] n = "NodeD" -> <<Fld("Val", TInt), Fld("Next", PtrTo(StructT("NodeD")))>>
    [] n = "Tree" -> <<Fld("Val", TInt), Fld("Kids", SliceOf(StructT("Tree")))>>
    [] n = "Graph" -> <<Fld("Val", TInt), Fld("Adj", MapOf(TString, PtrTo(StructT("Graph"))))>>
    [] n = "SrcTaggedAddress" -> <<Tagged("StreetName", TString, "Street", "City"),
                                   Tagged("CityName", TString, "City", "")>>
    [] n = "DstTaggedAddress" -> <<Fld("Street", TString), Fld("City", TString)>>
    [] n = "SrcTaggedPerson" -> <<Tagged("FullName", TString, "Name", ""),
                                  Tagged("HomeAddress", StructT("SrcTaggedAddress"), "Address", "")>>
    [] n = "DstTaggedPerson" -> <<Fld("Name", TString), Fld("Address", StructT("DstTaggedAddress"))>>
    [] n = "NestSrc" -> <<Fld("U", StructT("AliasSrc")), Tagged("V", StructT("UserDTO"), "T", ""),
                          Fld("Address", StructT("SrcTaggedAddress"))>>
    [] n = "NestDst" -> <<Fld("U", StructT("User")), Fld("T", StructT("TaggedDst")),
                          Fld("Address", StructT("DstTaggedAddress"))>>
    [] n = "OptIn" -> <<Fld("Name", PtrTo(TString)), Fld("Value", PtrTo(TInt32))>>
    [] n = "OptInD" -> <<Fld("Name", TString), Fld("Value", TInt64)>>
    [] n = "OptSrc" -> <<Fld("Name", PtrTo(TString)), Fld("In", StructT("OptIn")),
                         Fld("P", PtrTo(StructT("OptIn")))>>
    [] n = "OptDst" -> <<Fld("Name", TString), Fld("In", StructT("OptInD")),
                         Fld("P", PtrTo(StructT("OptInD")))>>
    [] n = "MapSrc" -> <<Fld("ID", TInt32), Fld("Data", MapOf(TString, TInt32))>>
    [] n = "MapKey" -> <<Fld("ID", TInt64), Fld("Data", MapOf(TInt32, TInt64))>>
    [] n = "MapVal" -> <<Fld("ID", TInt64), Fld("Data", MapOf(TString, TBool))>>
    [] n = "MapBoth" -> <<Fld("ID", TInt64), Fld("Data", MapOf(TInt32, TBool))>>
    [] n = "MapOk" -> <<Fld("ID", TInt64), Fld("Data", MapOf(TString, TInt64))>>
    [] n = "RollIn" -> <<Fld("A", TInt32), Fld("B", TString), Fld("C", TString)>>
    [] n = "RollInD" -> <<Fld("A", TInt64), Fld("B", TInt32), Fld("C", TString)>>
    [] n = "RollSrc" -> <<Fld("A", TInt32), Fld("B", TString), Fld("C", TString),
                          Fld("In", StructT("RollIn"))>>
    [] n = "RollDst" -> <<Fld("A", TInt64), Fld("B", TString), Fld("C", TString),
                          Fld("In", StructT("RollInD"))>>
    [] n = "SliceSrc" -> <<Fld("ID", TInt32), Fld("Values", SliceOf(TString))>>
    [] n = "SliceBad" -> <<Fld("ID", TInt64), Fld("Values", SliceOf(TInt32))>>
    [] n = "SliceOk" -> <<Fld("ID", TInt64), Fld("Values", SliceOf(TString))>>
    [] n = "PtrSrc" -> <<Fld("P", PtrTo(TInt32)), Fld("Q", PtrTo(TString)),
                         Fld("R", PtrTo(StructT("RollIn")))>>
    [] n = "PtrDst" -> <<Fld("P", PtrTo(TInt64)), Fld("Q", PtrTo(TString)),
                         Fld("R", PtrTo(StructT("RollIn")))>>
    [] n = "PtrBad" -> <<Fld("P", PtrTo(TInt64)), Fld("Q", PtrTo(TInt32)),
                         Fld("R", PtrTo(StructT("RollInD")))>>
    [] n = "AtomInS" -> <<Fld("S", SliceOf(StructT("RollIn"))), Fld("P", PtrTo(StructT("RollIn")))>>
    [] n = "AtomInD" -> <<Fld("S", SliceOf(StructT("RollInD"))),
                          Fld("P", PtrTo(StructT("RollInD")))>>
    [] n = "AtomS" -> <<Fld("S", SliceOf(StructT("RollIn"))),
                        Fld("M", MapOf(TString, StructT("RollIn"))),
                        Fld("P", PtrTo(StructT("RollIn"))), Fld("In", StructT("AtomInS"))>>
    [] n = "AtomD" -> <<Fld("S", SliceOf(StructT("RollInD"))),
                        Fld("M", MapOf(TString, StructT("RollInD"))),
                        Fld("P", PtrTo(StructT("RollInD"))), Fld("In", StructT("AtomInD"))>>
    [] n = "WideS" -> <<Fld("V", TInt32), Fld("Nums", SliceOf(TInt32)),
                        Fld("M", MapOf(TInt32, TInt32))>>
    [] n = "NarrowD" -> <<Fld("V", TInt8), Fld("Nums", SliceOf(TUint8)),
                          Fld("M", MapOf(TUint8, TInt8))>>
    [] n = "LeafS" -> <<Fld("Name", TString)>>
    [] \E k \in IntegerKinds : n = "Text_" \o k ->
         <<Conv("V", TString, CHOOSE k \in IntegerKinds : n = "Text_" \o k)>>
    [] \E k \in IntegerKinds : n = "Num_" \o k ->
         <<Fld("V", [k |-> CHOOSE k \in IntegerKinds : n = "Num_" \o k])>>
    [] n = "LeafD" -> <<Fld("Name", TInt)>>
    [] OTHER -> <<>>

\* the declared fields of struct type T, in declaration order (t.Field(i))
StructFields(T) == IF T.n = "Wrap" THEN <<Fld("F", T.ft)>> ELSE NamedFields(T.n)

\* the types of the fields of struct type T, by field name
FieldTypes(T) ==
  LET byName(fs) == [n \in {fs[i].n : i \in 1..Len(fs)} |->
                       fs[CHOOSE i \in 1..Len(fs) : fs[i].n = n].t]
  IN byName(StructFields(T))

(***************************************************************************)
(* Values.  An integer is an Int, a float64 is a fixed-point number of     *)
(* tenths (15 is 1.5), a string is a string, a struct is a record over all *)
(* its fields, and a pointer, slice or map is a heap address (0 is nil).   *)
(***************************************************************************)
Nil == 0

RECURSIVE Zero(_)
\* reflect.Zero(T)
Zero(T) ==
  CASE Kind(T) \in NumericKinds -> 0
    [] Kind(T) = "string" -> ""
    [] Kind(T) = "bool" -> FALSE
    [] Kind(T) = "struct" -> LET zero(ft) == [n \in DOMAIN ft |-> Zero(ft[n])] IN zero(FieldTypes(T))
    [] OTHER -> Nil

RECURSIVE IsZero(_, _)
\* reflect.Value.IsZero
IsZero(v, T) ==
  CASE Kind(T) \in NumericKinds -> v = 0
    [] Kind(T) = "string" -> v = ""
    [] Kind(T) = "bool" -> v = FALSE
    [] Kind(T) = "struct" ->
         LET isZero(ft) == \A n \in DOMAIN ft : IsZero(v[n], ft[n]) IN isZero(FieldTypes(T))
    [] OTHER -> v = Nil

(***************************************************************************)
(* Type relations and value conversion (reflect.Type.AssignableTo,         *)
(* ConvertibleTo, reflect.Value.Convert) on the types above, which have no *)
(* interfaces, arrays, channels or named non-struct types.  Two struct     *)
(* types, pointers or containers are paired by kind before either relation *)
(* is consulted, except where the code asks them first.                    *)
(***************************************************************************)
AssignableTo(S, D) == S = D

ConvertibleTo(S, D) ==
  \/ S = D
  \/ Kind(S) \in NumericKinds /\ Kind(D) \in NumericKinds
  \/ Kind(S) \in IntegerKinds /\ Kind(D) = "string"

\* an integer truncated to the width of integer kind k (two's complement);
\* widths of 32 and 64 bits are exact on the integers of this model
WrapTo(v, k) ==
  IF Bits(k) >= 32 THEN v
  ELSE IF k \in UnsignedKinds THEN v % Pow2(Bits(k))
  ELSE ((v + Pow2(Bits(k) - 1)) % Pow2(Bits(k))) - Pow2(Bits(k) - 1)

\* string(rune(v)): the one-character string of code point v, which is not
\* the decimal text of v
RuneString(v) == "U+" \o ToString(v)

\* a float in tenths truncated toward zero
TruncTenths(v) == IF v >= 0 THEN v \div 10 ELSE -((-v) \div 10)

\* reflect.Value.Convert, for ConvertibleTo(S, D)
Convert(v, S, D) ==
  CASE S = D -> v
    [] Kind(S) \in IntegerKinds /\ Kind(D) \in IntegerKinds -> WrapTo(v, Kind(D))
    [] Kind(S) \in IntegerKinds /\ Kind(D) \in FloatKinds -> v * 10
    [] Kind(S) \in FloatKinds /\ Kind(D) \in IntegerKinds -> WrapTo(TruncTenths(v), Kind(D))
    [] Kind(S) \in FloatKinds /\ Kind(D) \in FloatKinds -> v
    [] Kind(S) \in IntegerKinds /\ Kind(D) = "string" -> RuneString(v)

(***************************************************************************)
(* The heap.  A machine state m is the heap and the metadata cache.        *)
(***************************************************************************)
Loc(a, p) == [a |-> a, p |-> p, set |-> TRUE]
Sub(l, sel) == [a |-> l.a, p |-> Append(l.p, sel), set |-> l.set]
\* the object a pointer, slice or map value refers to
At(a) == Loc(a, <<>>)
\* reflect.Value.CanSet
CanSet(l) == l.set

\* reflect.Value.FieldByIndex: the field at a declaration index of a struct of type T
FieldByIndex(l, T, index) == Sub(l, StructFields(T)[index].n)

RECURSIVE Nav(_, _)
Nav(v, p) == IF Len(p) = 0 THEN v ELSE Nav(v[Head(p)], Tail(p))

RECURSIVE Upd(_, _, _)
Upd(v, p, x) == IF Len(p) = 0 THEN x ELSE [v EXCEPT ![Head(p)] = Upd(v[Head(p)], Tail(p), x)]

\* the value at a location
Read(h, l) == Nav(h[l.a], l.p)
\* reflect.Value.Set on a location
Write(m, l, x) == [m EXCEPT !.h[l.a] = Upd(@, l.p, x)]
\* a new heap object; its address is NewAddr
NewAddr(m) == Len(m.h) + 1
NewObj(m, obj) == [m EXCEPT !.h = Append(@, obj)]

\* a sequence of n zero values (reflect.MakeSlice)
ZeroSeq(T, n) == [i \in 1..n |-> Zero(T)]

(***************************************************************************)
(* Errors.  A call returns nil, a *MappingError, or panics.                *)
(***************************************************************************)
NoErr == [kind |-> "nil", SrcType |-> "", DstType |-> "", FieldPath |-> "", Reason |-> ""]
MErr(st, dt, path, reason) ==
  [kind |-> "MappingError", SrcType |-> st, DstType |-> dt, FieldPath |-> path, Reason |-> reason]
Panic(msg) == [kind |-> "panic", SrcType |-> "", DstType |-> "", FieldPath |-> "", Reason |-> msg]

DepthReason == "maximum nesting depth exceeded (possible circular reference)"
NoMatchReason == "no matching source field found"
CannotSetReason == "destination field cannot be set"

Ok(m) == [m |-> m, e |-> NoErr]
Fail(m, e) == [m |-> m, e |-> e]

(***************************************************************************)
(* Text.  Chars gives the characters of the strings the programs hold; a   *)
(* string outside the table is a name, which has no digit in it.           *)
(***************************************************************************)
Chars(s) ==
  CASE s = "" -> <<>>
    [] s = "0" -> <<"0">>
    [] s = "1" -> <<"1">>
    [] s = "7" -> <<"7">>
    [] s = "42" -> <<"4", "2">>
    [] s = "+7" -> <<"+", "7">>
    [] s = "-1" -> <<"-", "1">>
    [] s = "-128" -> <<"-", "1", "2", "8">>
    [] s = "-129" -> <<"-", "1", "2", "9">>
    [] s = "127" -> <<"1", "2", "7">>
    [] s = "128" -> <<"1", "2", "8">>
    [] s = "255" -> <<"2", "5", "5">>
    [] s = "256" -> <<"2", "5", "6">>
    [] s = "300" -> <<"3", "0", "0">>
    [] s = "32767" -> <<"3", "2", "7", "6", "7">>
    [] s = "32768" -> <<"3", "2", "7", "6", "8">>
    [] s = "-32768" -> <<"-", "3", "2", "7", "6", "8">>
    [] s = "-32769" -> <<"-", "3", "2", "7", "6", "9">>
    [] s = "65535" -> <<"6", "5", "5", "3", "5">>
    [] s = "65536" -> <<"6", "5", "5", "3", "6">>
    [] s = "2147483646" -> <<"2", "1", "4", "7", "4", "8", "3", "6", "4", "6">>
    [] s = "2147483648" -> <<"2", "1", "4", "7", "4", "8", "3", "6", "4", "8">>
    [] s = "-2147483649" -> <<"-", "2", "1", "4", "7", "4", "8", "3", "6", "4", "9">>
    [] s = "4294967296" -> <<"4", "2", "9", "4", "9", "6", "7", "2", "9", "6">>
    [] s = "9223372036854775808" ->
         <<"9", "2", "2", "3", "3", "7", "2", "0", "3", "6", "8", "5", "4", "7", "7", "5", "8", "0", "8">>
    [] s = "-9223372036854775809" ->
         <<"-", "9", "2", "2", "3", "3", "7", "2", "0", "3", "6", "8", "5", "4", "7", "7", "5", "8", "0", "9">>
    [] s = "18446744073709551616" ->
         <<"1", "8", "4", "4", "6", "7", "4", "4", "0", "7", "3", "7", "0", "9", "5", "5", "1", "6", "1", "6">>
    [] s = "1.5" -> <<"1", ".", "5">>
    [] s = "abc" -> <<"a", "b", "c">>
    [] s = "true" -> <<"t", "r", "u", "e">>
    [] s = "T" -> <<"T">>
    [] s = "false" -> <<"f", "a", "l", "s", "e">>
    [] OTHER -> <<"?">>

DigitChars == <<"0", "1", "2", "3", "4", "5", "6", "7", "8", "9">>
IsDigit(c) == \E i \in 1..10 : DigitChars[i] = c
DigitVal(c) == (CHOOSE i \in 1..10 : DigitChars[i] = c) - 1
AllDigits(cs) == \A i \in 1..Len(cs) : IsDigit(cs[i])

RECURSIVE StripZeros(_)
StripZeros(cs) == IF Len(cs) > 1 /\ Head(cs) = "0" THEN StripZeros(Tail(cs)) ELSE cs

RECURSIVE DigitsVal(_)
DigitsVal(cs) == IF Len(cs) = 0 THEN 0 ELSE DigitsVal(SubSeq(cs, 1, Len(cs) - 1)) * 10 + DigitVal(cs[Len(cs)])

RECURSIVE DigitsLess(_, _)
\* numeric a < b on digit sequences without leading zeros
DigitsLess(a, b) ==
  IF Len(a) # Len(b) THEN Len(a) < Len(b)
  ELSE IF Len(a) = 0 THEN FALSE
  ELSE IF Head(a) # Head(b) THEN DigitVal(Head(a)) < DigitVal(Head(b))
  ELSE DigitsLess(Tail(a), Tail(b))

\* the digits of 2^n, for the widths strconv checks against
Pow2Digits(n) ==
  CASE n = 7 -> <<"1", "2", "8">>
    [] n = 8 -> <<"2", "5", "6">>
    [] n = 15 -> <<"3", "2", "7", "6", "8">>
    [] n = 16 -> <<"6", "5", "5", "3", "6">>
    [] n = 31 -> <<"2", "1", "4", "7", "4", "8", "3", "6", "4", "8">>
    [] n = 32 -> <<"4", "2", "9", "4", "9", "6", "7", "2", "9", "6">>
    [] n = 63 -> <<"9", "2", "2", "3", "3", "7", "2", "0", "3", "6", "8", "5", "4", "7", "7", "5", "8", "0", "8">>
    [] n = 64 -> <<"1", "8", "4", "4", "6", "7", "4", "4", "0", "7", "3", "7", "0", "9", "5", "5", "1", "6", "1", "6">>

SyntaxErr(fn, s) == "strconv." \o fn \o ": parsing \"" \o s \o "\": invalid syntax"
RangeErr(fn, s) == "strconv." \o fn \o ": parsing \"" \o s \o "\": value out of range"

Parsed(v) == [ok |-> TRUE, v |-> v, msg |-> ""]
ParseFail(msg) == [ok |-> FALSE, v |-> 0, msg |-> msg]

\* strconv.ParseUint(s, 10, bitSize)
ParseUint(s, bitSize) ==
  LET parse(cs) ==
        IF Len(cs) = 0 \/ ~AllDigits(cs) THEN ParseFail(SyntaxErr("ParseUint", s))
        ELSE IF ~DigitsLess(StripZeros(cs), Pow2Digits(bitSize))
        THEN ParseFail(RangeErr("ParseUint", s))
        ELSE Parsed(DigitsVal(cs))
  IN parse(Chars(s))

\* strconv.ParseInt(s, 10, bitSize)
ParseInt(s, bitSize) ==
  LET parse(neg, ds, cutoff) ==
        IF Len(ds) = 0 \/ ~AllDigits(ds) THEN ParseFail(SyntaxErr("ParseInt", s))
        ELSE IF ~neg /\ ~DigitsLess(StripZeros(ds), cutoff) THEN ParseFail(RangeErr("ParseInt", s))
        ELSE IF neg /\ DigitsLess(cutoff, StripZeros(ds)) THEN ParseFail(RangeErr("ParseInt", s))
        ELSE Parsed(IF neg THEN -DigitsVal(ds) ELSE DigitsVal(ds))
      sign(cs) == parse(Len(cs) > 0 /\ Head(cs) = "-",
                        IF Len(cs) > 0 /\ Head(cs) \in {"+", "-"} THEN Tail(cs) ELSE cs,
                        Pow2Digits(bitSize - 1))
  IN sign(Chars(s))

\* strconv.ParseBool
ParseBool(s) ==
  IF s \in {"1", "t", "T", "TRUE", "true", "True"} THEN Parsed(TRUE)
  ELSE IF s \in {"0", "f", "F", "FALSE", "false", "False"} THEN Parsed(FALSE)
  ELSE [ok |-> FALSE, v |-> FALSE, msg |-> SyntaxErr("ParseBool", s)]

\* strconv.ParseFloat on decimal text with at most one fractional digit
\* (sign, digits, optional point and digit); the value is in tenths
ParseFloat(s) ==
  LET parse(neg, ds, dot, ip, fp) ==
        IF \/ Len(ds) = 0
           \/ (dot # {} /\ dot # {Len(ds) - 1})
           \/ Len(ip) = 0
           \/ ~AllDigits(ip)
           \/ ~AllDigits(fp)
        THEN ParseFail(SyntaxErr("ParseFloat", s))
        ELSE Parsed(IF neg THEN -(DigitsVal(ip) * 10 + DigitsVal(fp))
                    ELSE DigitsVal(ip) * 10 + DigitsVal(fp))
      split(neg, ds, dot) ==
        parse(neg, ds, dot, IF dot = {} THEN ds ELSE SubSeq(ds, 1, Len(ds) - 2),
              IF dot = {} THEN <<"0">> ELSE SubSeq(ds, Len(ds), Len(ds)))
      point(neg, ds) == split(neg, ds, {i \in 1..Len(ds) : ds[i] = "."})
      sign(cs) == point(Len(cs) > 0 /\ Head(cs) = "-",
                        IF Len(cs) > 0 /\ Head(cs) \in {"+", "-"} THEN Tail(cs) ELSE cs)
  IN sign(Chars(s))

\* conversionError
conversionError(str, targetType, parseErr, srcStructType, dstStructType, fieldPath) ==
  MErr(TypeString(srcStructType), TypeString(dstStructType), fieldPath,
       "cannot convert \"" \o str \o "\" to " \o targetType \o ": " \o parseErr)

\* every integer directive parsed as one byte
byteSize(targetType) == 8

\* the bitSize convertString hands to strconv.ParseInt and strconv.ParseUint
\* in the case of the integer directive targetType
bitSize(targetType) ==
  CASE targetType \in {"int", "int64", "uint", "uint64"} -> 64
    [] targetType \in {"int8", "uint8"} -> 8
    [] targetType \in {"int16", "uint16"} -> 16
    [] targetType \in {"int32", "uint32"} -> 32

\* convertString: the converted value and its type, or the error
convertString(str, targetType, srcStructType, dstStructType, fieldPath) ==
  LET parsed ==
           CASE targetType \in SignedKinds -> ParseInt(str, bitSize(targetType))
             [] targetType \in UnsignedKinds -> ParseUint(str, bitSize(targetType))
             [] targetType \in {"float32", "float64"} -> ParseFloat(str)
             [] targetType = "bool" -> ParseBool(str)
             [] OTHER -> ParseFail("")
      converted(r) ==
        IF ~r.ok
        THEN [ok |-> FALSE, v |-> 0, t |-> [k |-> targetType],
              e |-> conversionError(str, targetType, r.msg, srcStructType, dstStructType, fieldPath)]
        ELSE [ok |-> TRUE, v |-> r.v, t |-> [k |-> targetType], e |-> NoErr]
  IN
  IF targetType \notin (NumericKinds \cup {"bool"})
  THEN [ok |-> FALSE, v |-> 0, t |-> [k |-> targetType],
        e |-> MErr(TypeString(srcStructType), TypeString(dstStructType), fieldPath,
                   "unsupported mapconv target type: " \o targetType)]
  ELSE converted(parsed)

(***************************************************************************)
(* The metadata index.                                                     *)
(***************************************************************************)
\* sf.Tag.Get(tagName)
TagGet(f, tagName) == IF tagName \in DOMAIN f.tag THEN f.tag[tagName] ELSE ""

\* the table built by one pass over the fields; a later field with the same
\* tag value overwrites an earlier one
buildStructMeta(t, tagName) ==
  LET tagOf(f) == IF tagName # "" THEN TagGet(f, tagName) ELSE ""
      last(S) == CHOOSE i \in S : \A j \in S : j <= i
      build(fs, exported) ==
        LET meta(i) == [Name |-> fs[i].n, Index |-> i, Type |-> fs[i].t, Tag |-> tagOf(fs[i]),
                        ConvertTo |-> fs[i].conv]
        IN [Type |-> t,
            FieldsByName |-> [n \in {fs[i].n : i \in exported} |->
                                meta(last({i \in exported : fs[i].n = n}))],
            FieldsByTag |-> [g \in {tagOf(fs[i]) : i \in exported} \ {""} |->
                               meta(last({i \in exported : tagOf(fs[i]) = g}))],
            HasComposite |-> \E i \in exported : IsCompositeKind(Kind(fs[i].t))]
      fields(fs) == build(fs, {i \in 1..Len(fs) : fs[i].x})
  IN fields(StructFields(t))

cacheKey(t, tagName) == <<TypeString(t), tagName>>

\* getStructMeta on a struct type: the cached table, or a new one stored
\* under its key (sync.Map Load, then LoadOrStore)
getStructMeta(m, t, tagName) ==
  LET loadOrStore(key, built) ==
        IF key \in DOMAIN m.c THEN [m |-> m, meta |-> m.c[key]]
        ELSE [m |-> [m EXCEPT !.c = @ @@ (key :> built)], meta |-> built]
  IN loadOrStore(cacheKey(t, tagName), buildStructMeta(t, tagName))

\* the order in which a range over the table FieldsByName visits the names:
\* the exported names in declaration order, started at any point and taken
\* forwards or backwards
FieldOrder(t, rot) ==
  LET order(base, n) ==
        [i \in 1..n |->
           base[IF rot.rev THEN ((rot.r + n - i) % n) + 1 ELSE ((rot.r + i - 1) % n) + 1].n]
      exported(base) == order(base, Len(base))
  IN exported(SelectSeq(StructFields(t), LAMBDA f : f.x))

(***************************************************************************)
(* The assignment engine.  Every operator takes the machine state m and    *)
(* returns the machine state after it and the error it returns.  dst and   *)
(* src are locations and sType, dType the types of the values there; ctx   *)
(* holds what the recursion passes down unchanged: the root struct types   *)
(* (st, dt), the tag name (tag) and the iteration order of tables (rot).   *)
(***************************************************************************)
IsErr(r) == r.e.kind # "nil"

St(ctx) == TypeString(ctx.st)
Dt(ctx) == TypeString(ctx.dt)

\* converted, err := convertString(...); if err != nil { return err };
\* dst.Set(converted.Convert(dType)): Convert panics on an impossible pair
setConverted(m, dst, c, dType) ==
  The({IF ~q.ok THEN Fail(m, q.e)
       ELSE IF ~ConvertibleTo(q.t, dType)
       THEN Fail(m, Panic("reflect.Value.Convert: value of type " \o TypeString(q.t)
                          \o " cannot be converted to type " \o TypeString(dType)))
       ELSE Ok(Write(m, dst, Convert(q.v, q.t, dType))) : q \in {c}})

\* buildPath
buildPath(basePath, fieldName) ==
  IF basePath = "" THEN fieldName ELSE basePath \o "." \o fieldName

\* buildSlicePath; the model's sequences start at 1, Go's at 0
buildSlicePath(basePath, index) == basePath \o "[" \o ToString(index - 1) \o "]"

\* formatMapKey
formatMapKey(key, keyType) ==
  CASE Kind(keyType) = "string" -> key
    [] Kind(keyType) \in IntegerKinds -> ToString(key)
    [] OTHER -> "<key>"

\* buildMapPath
buildMapPath(basePath, key, keyType) == basePath \o "[" \o formatMapKey(key, keyType) \o "]"

\* a frame that, adding its segment, reports the failure as its own
prependOwn(r, segment) ==
  The({IF q.e.kind # "MappingError" THEN q
       ELSE [q EXCEPT !.e = MErr("", "", segment, "element could not be assigned")] : q \in {r}})

\* prependIndexPath, prependMapKeyPath: the segment put before a failure's path
prependPath(r, segment) ==
  The({IF q.e.kind # "MappingError" THEN q
       ELSE [q EXCEPT !.e.FieldPath = IF @ # "" THEN segment \o "." \o @ ELSE segment] : q \in {r}})

prependIndexPath(r, basePath, index) == prependPath(r, buildSlicePath(basePath, index))

prependMapKeyPath(r, basePath, key, keyType) == prependPath(r, buildMapPath(basePath, key, keyType))

\* an engine that reports an exhausted depth budget as success
depthIgnored(m, ctx, fieldPath) == Ok(m)

\* an engine that also refuses a depth left above the nesting it knows
depthCapped(depth) == depth <= 0 \/ depth > MaxD + 1

\* if depth <= 0: no depth is left for the value at hand
depthSpent(depth) == depth <= 0

\* if depth <= 0 { return &MappingError{..., Reason: "maximum nesting depth exceeded ..."} }
depthExceeded(m, ctx, fieldPath) == Fail(m, MErr(St(ctx), Dt(ctx), fieldPath, DepthReason))

\* an engine that leaves the destination alone on a nil source
keepDst(m, dst, dType) == Ok(m)

\* dst.Set(reflect.Zero(dst.Type())): what a nil source pointer, slice or map gives
setZero(m, dst, dType) == Ok(Write(m, dst, Zero(dType)))

\* an engine that resets the destination on a nil source pointer
resetOnNil(m, dst, dType) == Ok(Write(m, dst, Zero(dType)))

\* pointer -> value: if src.IsNil() { return nil }: nothing is assigned
skipNil(m, dst, dType) == Ok(m)

NoField == [Name |-> "", Index |-> 0, Type |-> [k |-> "none"], Tag |-> "", ConvertTo |-> ""]

\* a lookup that consults the aliases before the names
findByTagFirst(srcMeta, dstName) ==
  IF dstName \in DOMAIN srcMeta.FieldsByTag
  THEN [ok |-> TRUE, meta |-> srcMeta.FieldsByTag[dstName]]
  ELSE IF dstName \in DOMAIN srcMeta.FieldsByName
  THEN [ok |-> TRUE, meta |-> srcMeta.FieldsByName[dstName]]
  ELSE [ok |-> FALSE, meta |-> NoField]

\* srcFieldMeta, ok := srcMeta.FieldsByName[dstName];
\* if !ok { srcFieldMeta, ok = srcMeta.FieldsByTag[dstName] }
findSrcField(srcMeta, dstName) ==
  IF dstName \in DOMAIN srcMeta.FieldsByName
  THEN [ok |-> TRUE, meta |-> srcMeta.FieldsByName[dstName]]
  ELSE IF dstName \in DOMAIN srcMeta.FieldsByTag
  THEN [ok |-> TRUE, meta |-> srcMeta.FieldsByTag[dstName]]
  ELSE [ok |-> FALSE, meta |-> NoField]

RECURSIVE SetToSeq(_)
SetToSeq(S) == IF S = {} THEN <<>> ELSE LET x == CHOOSE y \in S : TRUE IN <<x>> \o SetToSeq(S \ {x})

\* the order in which MapRange visits the keys of a map object
KeyOrder(obj, rot) ==
  LET order(base, n) ==
        [i \in 1..n |-> base[IF rot.rev THEN ((rot.r + n - i) % n) + 1 ELSE ((rot.r + i - 1) % n) + 1]]
      keys(base) == order(base, Len(base))
  IN keys(SetToSeq(DOMAIN obj))

\* newMap.SetMapIndex(key, val)
SetMapIndex(obj, key, val) == [k \in DOMAIN obj \cup {key} |-> IF k = key THEN val ELSE obj[k]]

RECURSIVE assignValue(_, _, _, _, _, _, _, _, _)
RECURSIVE assignStruct(_, _, _, _, _, _, _, _)
RECURSIVE assignStructFields(_, _, _, _, _, _, _, _, _, _, _)
RECURSIVE assignNestedValue(_, _, _, _, _, _, _, _, _, _)
RECURSIVE assignSlice(_, _, _, _, _, _, _, _)
RECURSIVE assignSliceElems(_, _, _, _, _, _, _, _, _)
RECURSIVE assignMap(_, _, _, _, _, _, _, _)
RECURSIVE assignMapEntries(_, _, _, _, _, _, _, _, _)
RECURSIVE assignPointerElement(_, _, _, _, _, _, _, _)
RECURSIVE Call(_, _, _, _, _, _, _, _, _)
RECURSIVE CallValue(_, _, _, _, _, _, _, _, _, _, _)

\* a call of the engine's function fn for a struct, a slice, a map or a
\* pointer element; the four share their parameters.  The arguments are
\* evaluated once, at the call (Go passes values).
Call(fn, m, dst, src, sType, dType, ctx, fieldPath, depth) ==
  The({CASE fn = "assignStruct" -> assignStruct(a[1], a[2], a[3], a[4], a[5], a[6], a[7], a[8])
         [] fn = "assignSlice" -> assignSlice(a[1], a[2], a[3], a[4], a[5], a[6], a[7], a[8])
         [] fn = "assignMap" -> assignMap(a[1], a[2], a[3], a[4], a[5], a[6], a[7], a[8])
         [] fn = "assignPointerElement" ->
              assignPointerElement(a[1], a[2], a[3], a[4], a[5], a[6], a[7], a[8]) :
       a \in {<<m, dst, src, sType, dType, ctx, fieldPath, depth>>}})

\* a call of assignValue, or of assignNestedValue (which takes the path in
\* two parts, basePath and fieldName)
CallValue(fn, m, dst, src, sType, dType, ctx, basePath, fieldName, convertTo, depth) ==
  The({CASE fn = "assignValue" ->
              assignValue(a[1], a[2], a[3], a[4], a[5], a[6], a[7], a[9], a[10])
         [] fn = "assignNestedValue" ->
              assignNestedValue(a[1], a[2], a[3], a[4], a[5], a[6], a[7], a[8], a[9], a[10]) :
       a \in {<<m, dst, src, sType, dType, ctx, basePath, fieldName, convertTo, depth>>}})

\* an engine that stores the new holder whether or not the inner assignment
\* succeeded
setAnyway(r, dst, v) == [m |-> Write(r.m, dst, v), e |-> r.e]

\* if err != nil { return err }; dst.Set(v)
setIfOk(r, dst, v) == The({IF IsErr(q) THEN q ELSE Ok(Write(q.m, dst, v)) : q \in {r}})

\* the reason of a pair of types no rule assigns
Incompatible(what, S, D) == what \o TypeString(S) \o " -> " \o TypeString(D)

\* assignValue: the assignment of one root field
assignValue(m, dst, src, sType, dType, ctx, fieldPath, convertTo, depth) ==
  LET sv == Read(m.h, src)
      srcKind == Kind(sType)
      dstKind == Kind(dType)
      a == NewAddr(m)
  IN
  IF depthSpent(depth) THEN depthExceeded(m, ctx, fieldPath)
  ELSE IF ~CanSet(dst) THEN Fail(m, MErr(St(ctx), Dt(ctx), fieldPath, CannotSetReason))
  ELSE IF convertTo # "" /\ srcKind = "string" THEN
    setConverted(m, dst, convertString(sv, convertTo, ctx.st, ctx.dt, fieldPath), dType)
  ELSE IF srcKind = "struct" /\ dstKind = "struct" THEN
    Call("assignStruct", m, dst, src, sType, dType, ctx, fieldPath, depth - 1)
  ELSE IF srcKind = "slice" /\ dstKind = "slice" THEN
    Call("assignSlice", m, dst, src, sType, dType, ctx, fieldPath, depth - 1)
  ELSE IF srcKind = "map" /\ dstKind = "map" THEN
    Call("assignMap", m, dst, src, sType, dType, ctx, fieldPath, depth - 1)
  ELSE IF srcKind = "ptr" /\ dstKind = "ptr" THEN
    IF sv = Nil THEN setZero(m, dst, dType)
    ELSE IF sType.e = dType.e /\ ~IsCompositeKind(Kind(sType.e)) THEN
      Ok(Write(NewObj(m, Read(m.h, At(sv))), dst, a))
    ELSE
      setIfOk(CallValue("assignValue", NewObj(m, Zero(dType.e)), At(a), At(sv), sType.e, dType.e,
                        ctx, fieldPath, "", convertTo, depth - 1), dst, a)
  ELSE IF srcKind = "ptr" /\ dstKind # "ptr" THEN
    IF sv = Nil THEN skipNil(m, dst, dType)
    ELSE CallValue("assignValue", m, dst, At(sv), sType.e, dType, ctx, fieldPath, "", convertTo,
                   depth - 1)
  ELSE IF srcKind # "ptr" /\ dstKind = "ptr" THEN
    setIfOk(CallValue("assignValue", NewObj(m, Zero(dType.e)), At(a), src, sType, dType.e, ctx,
                      fieldPath, "", convertTo, depth - 1), dst, a)
  ELSE IF AssignableTo(sType, dType) THEN Ok(Write(m, dst, sv))
  ELSE IF ConvertibleTo(sType, dType) THEN Ok(Write(m, dst, Convert(sv, sType, dType)))
  ELSE Fail(m, MErr(St(ctx), Dt(ctx), fieldPath,
                    Incompatible("incompatible field types: ", sType, dType)))

\* a loop over the fields that goes on after a failure
endsAfterLast(r, names) == Len(names) = 0

\* the loops over the destination's fields end at the first failure
\* (if err != nil { return err }) or when no name is left to visit
loopEnds(r, names) == IsErr(r) \/ Len(names) = 0

\* assignStruct: src and dst are structs (the callers pair the kinds), so
\* getStructMeta cannot fail
assignStruct(m, dst, src, srcType, dstType, ctx, fieldPath, depth) ==
  IF depthSpent(depth) THEN depthExceeded(m, ctx, fieldPath)
  ELSE
    The({IF srcType = dstType /\ ~g1.meta.HasComposite
         THEN Ok(Write(g1.m, dst, Read(g1.m.h, src)))
         ELSE The({assignStructFields(Ok(g2.m), dst, src, srcType, dstType, g1.meta, g2.meta,
                                      FieldOrder(dstType, ctx.rot), ctx, fieldPath, depth) :
                   g2 \in {getStructMeta(g1.m, dstType, ctx.tag)}}) :
         g1 \in {getStructMeta(m, srcType, ctx.tag)}})

\* one pass of the loop of assignStruct: the destination field dstName
assignStructField(m, dst, src, srcType, dstType, srcMeta, dstMeta, dstName, ctx, fieldPath, depth) ==
  The({IF ~f.ok THEN Ok(m)
       ELSE CallValue("assignNestedValue", m,
                      FieldByIndex(dst, dstType, dstMeta.FieldsByName[dstName].Index),
                      FieldByIndex(src, srcType, f.meta.Index), f.meta.Type,
                      dstMeta.FieldsByName[dstName].Type, ctx, fieldPath, dstName,
                      f.meta.ConvertTo, depth) :
       f \in {findSrcField(srcMeta, dstName)}})

\* the loop of assignStruct over the destination's table: r is the outcome
\* so far, names the names still to visit; a failure ends the loop
assignStructFields(r, dst, src, srcType, dstType, srcMeta, dstMeta, names, ctx, fieldPath, depth) ==
  IF loopEnds(r, names) THEN r
  ELSE The({assignStructFields(q, dst, src, srcType, dstType, srcMeta, dstMeta, Tail(names), ctx,
                               fieldPath, depth) :
            q \in {assignStructField(r.m, dst, src, srcType, dstType, srcMeta, dstMeta,
                                     Head(names), ctx, fieldPath, depth)}})

\* assignNestedValue: the assignment of one field of a nested struct
assignNestedValue(m, dst, src, sType, dType, ctx, basePath, fieldName, convertTo, depth) ==
  LET sv == Read(m.h, src)
      srcKind == Kind(sType)
      dstKind == Kind(dType)
      fullPath == buildPath(basePath, fieldName)
      a == NewAddr(m)
  IN
  IF depthSpent(depth) THEN depthExceeded(m, ctx, fullPath)
  ELSE IF ~CanSet(dst) THEN Fail(m, MErr(St(ctx), Dt(ctx), fullPath, CannotSetReason))
  ELSE IF convertTo # "" /\ srcKind = "string" THEN
    setConverted(m, dst, convertString(sv, convertTo, ctx.st, ctx.dt, fullPath), dType)
  ELSE IF ~IsCompositeKind(srcKind) /\ ~IsCompositeKind(dstKind) THEN
    IF AssignableTo(sType, dType) THEN Ok(Write(m, dst, sv))
    ELSE IF ConvertibleTo(sType, dType) THEN Ok(Write(m, dst, Convert(sv, sType, dType)))
    ELSE Fail(m, MErr(St(ctx), Dt(ctx), fullPath,
                      Incompatible("incompatible field types: ", sType, dType)))
  ELSE IF srcKind = "struct" /\ dstKind = "struct" THEN
    Call("assignStruct", m, dst, src, sType, dType, ctx, fullPath, depth - 1)
  ELSE IF srcKind = "slice" /\ dstKind = "slice" THEN
    Call("assignSlice", m, dst, src, sType, dType, ctx, fullPath, depth - 1)
  ELSE IF srcKind = "map" /\ dstKind = "map" THEN
    Call("assignMap", m, dst, src, sType, dType, ctx, fullPath, depth - 1)
  ELSE IF srcKind = "ptr" /\ dstKind = "ptr" THEN
    IF sv = Nil THEN setZero(m, dst, dType)
    ELSE
      setIfOk(CallValue("assignNestedValue", NewObj(m, Zero(dType.e)), At(a), At(sv), sType.e,
                        dType.e, ctx, fullPath, "", convertTo, depth - 1), dst, a)
  ELSE IF srcKind = "ptr" /\ dstKind # "ptr" THEN
    IF sv = Nil THEN skipNil(m, dst, dType)
    ELSE CallValue("assignNestedValue", m, dst, At(sv), sType.e, dType, ctx, fullPath, "",
                   convertTo, depth - 1)
  ELSE IF srcKind # "ptr" /\ dstKind = "ptr" THEN
    setIfOk(CallValue("assignNestedValue", NewObj(m, Zero(dType.e)), At(a), src, sType, dType.e,
                      ctx, fullPath, "", convertTo, depth - 1), dst, a)
  ELSE IF AssignableTo(sType, dType) THEN Ok(Write(m, dst, sv))
  ELSE IF ConvertibleTo(sType, dType) THEN Ok(Write(m, dst, Convert(sv, sType, dType)))
  ELSE Fail(m, MErr(St(ctx), Dt(ctx), fullPath,
                    Incompatible("incompatible field types: ", sType, dType)))

\* whether two element (or map value) types are paired by kind
BothKind(S, D, k) == Kind(S) = k /\ Kind(D) = k

\* whether they are paired by one of the kinds handled by recursion
BothComposite(S, D) == \E k \in {"struct", "slice", "map", "ptr"} : BothKind(S, D, k)

\* whether the keys, and whether the values, of two map types are incompatible
keysIncompatible(sType, dType) ==
  ~AssignableTo(sType.key, dType.key) /\ ~ConvertibleTo(sType.key, dType.key)
valuesIncompatible(sType, dType) ==
  /\ ~AssignableTo(sType.e, dType.e) /\ ~ConvertibleTo(sType.e, dType.e)
  /\ ~BothComposite(sType.e, dType.e)

\* a check of the map types that looks at the values before the keys
valuesBeforeKeys(sType, dType) ==
  IF valuesIncompatible(sType, dType)
  THEN Incompatible("map value types are incompatible: ", sType.e, dType.e)
  ELSE IF keysIncompatible(sType, dType)
  THEN Incompatible("map key types are incompatible: ", sType.key, dType.key)
  ELSE ""

\* assignMap: the two checks of the map types made before the new map is
\* built, as the Reason of the failure ("" when the types are compatible)
mapTypesReason(sType, dType) ==
  IF keysIncompatible(sType, dType)
  THEN Incompatible("map key types are incompatible: ", sType.key, dType.key)
  ELSE IF valuesIncompatible(sType, dType)
  THEN Incompatible("map value types are incompatible: ", sType.e, dType.e)
  ELSE ""

\* a check of the element types that lets every pair through
elemsUnchecked(sType, dType) == ""

\* assignSlice: the check of the element types made before the loop, as the
\* Reason of the failure ("" when the types are compatible)
sliceElemsReason(sType, dType) ==
  IF /\ ~AssignableTo(sType.e, dType.e) /\ ~ConvertibleTo(sType.e, dType.e)
     /\ ~BothComposite(sType.e, dType.e)
  THEN Incompatible("slice element types are incompatible: ", sType.e, dType.e)
  ELSE ""

\* assignSlice
assignSlice(m, dst, src, sType, dType, ctx, fieldPath, depth) ==
  LET sv == Read(m.h, src)
      srcElemType == sType.e
      dstElemType == dType.e
      newSlice == NewAddr(m)
      m1 == NewObj(m, ZeroSeq(dstElemType, Len(m.h[sv])))
  IN
  IF depthSpent(depth) THEN depthExceeded(m, ctx, fieldPath)
  ELSE IF sv = Nil THEN setZero(m, dst, dType)
  ELSE IF srcElemType = dstElemType /\ ~IsCompositeKind(Kind(srcElemType)) THEN
    Ok(Write(Write(m1, At(newSlice), m.h[sv]), dst, newSlice))
  ELSE IF sliceElemsReason(sType, dType) # ""
  THEN Fail(m1, MErr(St(ctx), Dt(ctx), fieldPath, sliceElemsReason(sType, dType)))
  ELSE setIfOk(assignSliceElems(Ok(m1), newSlice, sv, srcElemType, dstElemType, ctx, fieldPath, 1,
                                depth), dst, newSlice)

\* the element of the source written over
overSrc(newSlice, sv, i) == Sub(At(sv), i)

\* dstElem := newSlice.Index(i)
dstIndex(newSlice, sv, i) == Sub(At(newSlice), i)

\* one pass of the loop of assignSlice: the element at index i; the WithIndex
\* wrappers pass an empty path down and prepend the index to a failure
assignSliceElem(m, newSlice, sv, srcElemType, dstElemType, ctx, fieldPath, i, depth) ==
  LET srcElem == Sub(At(sv), i)
      dstElem == dstIndex(newSlice, sv, i)
  IN
  IF BothKind(srcElemType, dstElemType, "struct")
  THEN prependIndexPath(Call("assignStruct", m, dstElem, srcElem, srcElemType, dstElemType, ctx,
                             "", depth - 1), fieldPath, i)
  ELSE IF BothKind(srcElemType, dstElemType, "slice")
  THEN prependIndexPath(Call("assignSlice", m, dstElem, srcElem, srcElemType, dstElemType, ctx,
                             "", depth - 1), fieldPath, i)
  ELSE IF BothKind(srcElemType, dstElemType, "map")
  THEN prependIndexPath(Call("assignMap", m, dstElem, srcElem, srcElemType, dstElemType, ctx,
                             "", depth - 1), fieldPath, i)
  ELSE IF BothKind(srcElemType, dstElemType, "ptr")
  THEN prependIndexPath(Call("assignPointerElement", m, dstElem, srcElem, srcElemType,
                             dstElemType, ctx, "", depth - 1), fieldPath, i)
  ELSE IF AssignableTo(srcElemType, dstElemType)
  THEN Ok(Write(m, dstElem, Read(m.h, srcElem)))
  ELSE Ok(Write(m, dstElem, Convert(Read(m.h, srcElem), srcElemType, dstElemType)))

\* the loop of assignSlice, from index i on: r is the outcome so far; a
\* failure ends the loop
assignSliceElems(r, newSlice, sv, srcElemType, dstElemType, ctx, fieldPath, i, depth) ==
  IF IsErr(r) \/ i > Len(r.m.h[sv]) THEN r
  ELSE The({assignSliceElems(q, newSlice, sv, srcElemType, dstElemType, ctx, fieldPath, i + 1,
                             depth) :
            q \in {assignSliceElem(r.m, newSlice, sv, srcElemType, dstElemType, ctx, fieldPath,
                                   i, depth)}})

\* assignPointerElement: a pointer element of a slice or a pointer value of a map
assignPointerElement(m, dst, src, sType, dType, ctx, fieldPath, depth) ==
  LET sv == Read(m.h, src)
      srcElem == At(sv)
      srcElemType == sType.e
      dstElemType == dType.e
      newPtr == NewAddr(m)
      m1 == NewObj(m, Zero(dstElemType))
  IN
  IF depthSpent(depth) THEN depthExceeded(m, ctx, fieldPath)
  ELSE IF sv = Nil THEN setZero(m, dst, dType)
  ELSE
    setIfOk(IF BothKind(srcElemType, dstElemType, "struct")
            THEN Call("assignStruct", m1, At(newPtr), srcElem, srcElemType, dstElemType, ctx,
                      fieldPath, depth - 1)
            ELSE IF BothKind(srcElemType, dstElemType, "slice")
            THEN Call("assignSlice", m1, At(newPtr), srcElem, srcElemType, dstElemType, ctx,
                      fieldPath, depth - 1)
            ELSE IF BothKind(srcElemType, dstElemType, "map")
            THEN Call("assignMap", m1, At(newPtr), srcElem, srcElemType, dstElemType, ctx,
                      fieldPath, depth - 1)
            ELSE IF BothKind(srcElemType, dstElemType, "ptr")
            THEN Call("assignPointerElement", m1, At(newPtr), srcElem, srcElemType, dstElemType,
                      ctx, fieldPath, depth - 1)
            ELSE IF AssignableTo(srcElemType, dstElemType)
            THEN Ok(Write(m1, At(newPtr), Read(m1.h, srcElem)))
            ELSE IF ConvertibleTo(srcElemType, dstElemType)
            THEN Ok(Write(m1, At(newPtr), Convert(Read(m1.h, srcElem), srcElemType, dstElemType)))
            ELSE Fail(m1, MErr(St(ctx), Dt(ctx), fieldPath,
                               Incompatible("incompatible pointer element types: ", srcElemType,
                                            dstElemType))),
            dst, newPtr)

\* assignMap
assignMap(m, dst, src, sType, dType, ctx, fieldPath, depth) ==
  LET sv == Read(m.h, src)
      srcValType == sType.e
      dstValType == dType.e
      newMap == NewAddr(m)
  IN
  IF depthSpent(depth) THEN depthExceeded(m, ctx, fieldPath)
  ELSE IF sv = Nil THEN setZero(m, dst, dType)
  ELSE IF mapTypesReason(sType, dType) # ""
  THEN Fail(m, MErr(St(ctx), Dt(ctx), fieldPath, mapTypesReason(sType, dType)))
  ELSE setIfOk(assignMapEntries(Ok(NewObj(m, <<>>)), newMap, sv, sType, dType, ctx, fieldPath,
                                KeyOrder(m.h[sv], ctx.rot), depth), dst, newMap)

\* if err != nil { return prependMapKeyPath(err, ...) }; newMap.SetMapIndex(dstKey, dstVal)
\* for a value assigned into the new value at dstVal
setMapIndexIfOk(r, newMap, dstKey, dstVal, fieldPath, srcKey, keyType) ==
  The({IF IsErr(q) THEN prependMapKeyPath(q, fieldPath, srcKey, keyType)
       ELSE Ok(Write(q.m, At(newMap), SetMapIndex(q.m.h[newMap], dstKey, Read(q.m.h, At(dstVal))))) :
       q \in {r}})

\* one pass of the loop of assignMap: the entry at srcKey; a composite value
\* is assigned into a new value (reflect.New(...).Elem())
assignMapEntry(m, newMap, sv, sType, dType, ctx, fieldPath, srcKey, depth) ==
  LET srcVal == Sub(At(sv), srcKey)
      srcValType == sType.e
      dstValType == dType.e
      dstKey == IF AssignableTo(sType.key, dType.key) THEN srcKey
                ELSE Convert(srcKey, sType.key, dType.key)
      needsProcessing == BothComposite(srcValType, dstValType)
                         \/ (~AssignableTo(srcValType, dstValType)
                             /\ ConvertibleTo(srcValType, dstValType))
      dstVal == NewAddr(m)
      m1 == NewObj(m, Zero(dstValType))
  IN
  IF ~needsProcessing /\ AssignableTo(srcValType, dstValType)
  THEN Ok(Write(m, At(newMap), SetMapIndex(m.h[newMap], dstKey, Read(m.h, srcVal))))
  ELSE IF BothComposite(srcValType, dstValType)
  THEN setMapIndexIfOk(
         IF BothKind(srcValType, dstValType, "struct")
         THEN Call("assignStruct", m1, At(dstVal), srcVal, srcValType, dstValType, ctx, "", depth - 1)
         ELSE IF BothKind(srcValType, dstValType, "map")
         THEN Call("assignMap", m1, At(dstVal), srcVal, srcValType, dstValType, ctx, "", depth - 1)
         ELSE IF BothKind(srcValType, dstValType, "slice")
         THEN Call("assignSlice", m1, At(dstVal), srcVal, srcValType, dstValType, ctx, "", depth - 1)
         ELSE Call("assignPointerElement", m1, At(dstVal), srcVal, srcValType, dstValType, ctx,
                   "", depth - 1),
         newMap, dstKey, dstVal, fieldPath, srcKey, sType.key)
  ELSE Ok(Write(m, At(newMap),
                SetMapIndex(m.h[newMap], dstKey, Convert(Read(m.h, srcVal), srcValType, dstValType))))

\* the loop of assignMap over the source's entries, in the order keys: r is
\* the outcome so far; a failure ends the loop
assignMapEntries(r, newMap, sv, sType, dType, ctx, fieldPath, keys, depth) ==
  IF IsErr(r) \/ Len(keys) = 0 THEN r
  ELSE The({assignMapEntries(q, newMap, sv, sType, dType, ctx, fieldPath, Tail(keys), depth) :
            q \in {assignMapEntry(r.m, newMap, sv, sType, dType, ctx, fieldPath, Head(keys),
                                  depth)}})

(***************************************************************************)
(* Configuration and the root call.                                        *)
(***************************************************************************)
DefaultMaxDepth == 64

defaultConfig ==
  [tagName |-> "map", ignoreZeroSource |-> FALSE, strictMode |-> FALSE, maxDepth |-> DefaultMaxDepth]

\* the options; an option is applied to the configuration by ApplyOption
WithTagName(tag) == [o |-> "tag", s |-> tag, d |-> 0]
WithIgnoreZeroSource == [o |-> "zero", s |-> "", d |-> 0]
WithStrictMode == [o |-> "strict", s |-> "", d |-> 0]
WithMaxDepth(depth) == [o |-> "depth", s |-> "", d |-> depth]

\* an option applied with no test of the depth it carries
applyUnchecked(c, opt) ==
  CASE opt.o = "tag" -> [c EXCEPT !.tagName = opt.s]
    [] opt.o = "zero" -> [c EXCEPT !.ignoreZeroSource = TRUE]
    [] opt.o = "strict" -> [c EXCEPT !.strictMode = TRUE]
    [] opt.o = "depth" -> [c EXCEPT !.maxDepth = opt.d]

\* opt(&cfg): the option applied to the configuration
ApplyOption(c, opt) ==
  CASE opt.o = "tag" -> [c EXCEPT !.tagName = opt.s]
    [] opt.o = "zero" -> [c EXCEPT !.ignoreZeroSource = TRUE]
    [] opt.o = "strict" -> [c EXCEPT !.strictMode = TRUE]
    [] opt.o = "depth" -> IF opt.d > 0 THEN [c EXCEPT !.maxDepth = opt.d] ELSE c

RECURSIVE ApplyOptions(_, _)
ApplyOptions(c, os) == IF Len(os) = 0 THEN c ELSE ApplyOptions(ApplyOption(c, Head(os)), Tail(os))

\* an interface value: nil, or a dynamic type t with, for a pointer type, the
\* pointer a and, for any other type, the address a of the copy it holds
NilIface == [isnil |-> TRUE, t |-> [k |-> "none"], a |-> Nil]
Iface(t, a) == [isnil |-> FALSE, t |-> t, a |-> a]

\* typeOf
typeOf(v) == IF v.isnil THEN "<nil>" ELSE TypeString(v.t)

\* root checks that look at the source pointer before the destination
rootReasonSrcFirst(dst, src) ==
  IF dst.isnil \/ src.isnil THEN "nil src or dst"
  ELSE IF Kind(src.t) = "ptr" /\ src.a = Nil THEN "src is a nil pointer"
  ELSE IF Kind(dst.t) # "ptr" \/ dst.a = Nil THEN "dst must be a non-nil pointer to struct"
  ELSE IF Kind(dst.t.e) # "struct" THEN "dst must point to a struct"
  ELSE IF Kind(IF Kind(src.t) = "ptr" THEN src.t.e ELSE src.t) # "struct"
  THEN "src must be a struct or pointer to struct"
  ELSE ""

\* the root checks of runMapping: the reason of the first that fails, or ""
rootReason(dst, src) ==
  IF dst.isnil \/ src.isnil THEN "nil src or dst"
  ELSE IF Kind(dst.t) # "ptr" \/ dst.a = Nil THEN "dst must be a non-nil pointer to struct"
  ELSE IF Kind(dst.t.e) # "struct" THEN "dst must point to a struct"
  ELSE IF Kind(src.t) = "ptr" /\ src.a = Nil THEN "src is a nil pointer"
  ELSE IF Kind(IF Kind(src.t) = "ptr" THEN src.t.e ELSE src.t) # "struct"
  THEN "src must be a struct or pointer to struct"
  ELSE ""

\* a loop that skips an unmatched field whatever the mode
skipUnmatched(m, c, srcType, dstType, dstName) == Ok(m)

\* a loop that fails on an unmatched field whatever the mode
failUnmatched(m, c, srcType, dstType, dstName) ==
  Fail(m, MErr(TypeString(srcType), TypeString(dstType), dstName, NoMatchReason))

\* if !ok { if cfg.strictMode { return &MappingError{...} }; continue }
noMatch(m, c, srcType, dstType, dstName) ==
  IF c.strictMode
  THEN Fail(m, MErr(TypeString(srcType), TypeString(dstType), dstName, NoMatchReason))
  ELSE Ok(m)

\* a loop that assigns zero source values too
neverSkip(c, v, T) == FALSE

\* cfg.ignoreZeroSource && srcField.IsZero()
skipZero(c, v, T) == c.ignoreZeroSource /\ IsZero(v, T)

\* one pass of the loop of runMapping: the destination field dstName
runMappingField(m, dstElem, srcVal, srcType, dstType, srcMeta, dstMeta, dstName, c, ctx) ==
  The({IF ~f.ok THEN noMatch(m, c, srcType, dstType, dstName)
       ELSE IF skipZero(c, Read(m.h, FieldByIndex(srcVal, srcType, f.meta.Index)), f.meta.Type)
       THEN Ok(m)
       ELSE CallValue("assignValue", m,
                      FieldByIndex(dstElem, dstType, dstMeta.FieldsByName[dstName].Index),
                      FieldByIndex(srcVal, srcType, f.meta.Index), f.meta.Type,
                      dstMeta.FieldsByName[dstName].Type, ctx, dstName, "", f.meta.ConvertTo,
                      c.maxDepth) :
       f \in {findSrcField(srcMeta, dstName)}})

RECURSIVE runMappingFields(_, _, _, _, _, _, _, _, _, _)
\* the loop of runMapping over the destination's table: r is the outcome so
\* far, names the names still to visit; a failure ends the loop
runMappingFields(r, dstElem, srcVal, srcType, dstType, srcMeta, dstMeta, names, c, ctx) ==
  IF loopEnds(r, names) THEN r
  ELSE The({runMappingFields(q, dstElem, srcVal, srcType, dstType, srcMeta, dstMeta, Tail(names),
                             c, ctx) :
            q \in {runMappingField(r.m, dstElem, srcVal, srcType, dstType, srcMeta, dstMeta,
                                   Head(names), c, ctx)}})

\* runMapping
runMapping(m, dst, src, c, rot) ==
  LET srcType == IF Kind(src.t) = "ptr" THEN src.t.e ELSE src.t
      dstType == dst.t.e
      ctx == [st |-> srcType, dt |-> dstType, tag |-> c.tagName, rot |-> rot]
  IN
  IF rootReason(dst, src) # ""
  THEN Fail(m, MErr(typeOf(src), typeOf(dst), "", rootReason(dst, src)))
  ELSE The({The({runMappingFields(Ok(g2.m), At(dst.a), At(src.a), srcType, dstType, g1.meta,
                                  g2.meta, FieldOrder(dstType, rot), c, ctx) :
                 g2 \in {getStructMeta(g1.m, dstType, c.tagName)}}) :
            g1 \in {getStructMeta(m, srcType, c.tagName)}})

\* MapWithOptions
MapWithOptions(m, dst, src, os, rot) ==
  The({runMapping(m, dst, src, c, rot) : c \in {ApplyOptions(defaultConfig, os)}})

(***************************************************************************)
(* The programs' data.  A value is first described without addresses (a    *)
(* struct as a record, a pointer as <<>> (nil) or <<pointee>>, a slice or  *)
(* a map as [nil, s] with s its elements or entries) and then built in the *)
(* heap by Alloc, every pointer, slice and map in an object of its own.    *)
(***************************************************************************)
NilColl == [nil |-> TRUE, s |-> <<>>]
Coll(s) == [nil |-> FALSE, s |-> s]

RECURSIVE Vals(_, _, _)
RECURSIVE StructVals(_, _, _, _)
\* the values of type T over the domains dom, nested at most fuel deep
Vals(T, dom, fuel) ==
  CASE Kind(T) \in IntegerKinds -> dom.ints
    [] Kind(T) \in FloatKinds -> {0, 15}
    [] Kind(T) = "string" -> dom.strs
    [] Kind(T) = "bool" -> BOOLEAN
    [] Kind(T) = "struct" -> StructVals(T, Len(StructFields(T)), dom, fuel)
    [] Kind(T) = "ptr" ->
         {<<>>} \cup (IF fuel = 0 THEN {} ELSE {<<x>> : x \in Vals(T.e, dom, fuel - 1)})
    [] Kind(T) = "slice" ->
         {NilColl} \cup (IF fuel = 0 THEN {}
                         ELSE UNION {{Coll(q) : q \in [1..n -> Vals(T.e, dom, fuel - 1)]} : n \in dom.lens})
    [] Kind(T) = "map" ->
         {NilColl} \cup (IF fuel = 0 THEN {}
                         ELSE UNION {{Coll(q) : q \in [K -> Vals(T.e, dom, fuel - 1)]} : K \in dom.keys})

StructVals(T, i, dom, fuel) ==
  IF i = 0 THEN {<<>>}
  ELSE {r @@ (StructFields(T)[i].n :> x) :
          r \in StructVals(T, i - 1, dom, fuel), x \in Vals(StructFields(T)[i].t, dom, fuel)}

RECURSIVE Full(_, _)
\* a populated value of type T: nothing zero, nil or empty down to fuel
Full(T, fuel) ==
  CASE Kind(T) \in NumericKinds -> 9
    [] Kind(T) = "string" -> "old"
    [] Kind(T) = "bool" -> TRUE
    [] Kind(T) = "struct" ->
         LET full(ft) == [n \in DOMAIN ft |-> Full(ft[n], fuel)] IN full(FieldTypes(T))
    [] Kind(T) = "ptr" -> IF fuel = 0 THEN <<>> ELSE <<Full(T.e, fuel - 1)>>
    [] Kind(T) = "slice" -> IF fuel = 0 THEN NilColl ELSE Coll(<<Full(T.e, fuel - 1)>>)
    [] Kind(T) = "map" ->
         IF fuel = 0 THEN NilColl
         ELSE Coll([k \in {IF Kind(T.key) = "string" THEN "old" ELSE 9} |-> Full(T.e, fuel - 1)])

RECURSIVE ZeroTree(_)
\* the zero value of type T
ZeroTree(T) ==
  CASE Kind(T) \in NumericKinds -> 0
    [] Kind(T) = "string" -> ""
    [] Kind(T) = "bool" -> FALSE
    [] Kind(T) = "struct" ->
         LET zero(ft) == [n \in DOMAIN ft |-> ZeroTree(ft[n])] IN zero(FieldTypes(T))
    [] Kind(T) = "ptr" -> <<>>
    [] OTHER -> NilColl

RECURSIVE Alloc(_, _, _)
RECURSIVE AllocAll(_, _, _)
\* the described value tr of type T built in heap h: the heap after and the value
Alloc(h, T, tr) ==
  CASE Kind(T) = "struct" ->
         The({The({[h |-> r.h,
                    v |-> [n \in {fs[i].n : i \in 1..Len(fs)} |->
                             r.vs[CHOOSE i \in 1..Len(fs) : fs[i].n = n]]] :
                   r \in {AllocAll(h, [i \in 1..Len(fs) |-> fs[i].t],
                                   [i \in 1..Len(fs) |-> tr[fs[i].n]])}}) :
              fs \in {StructFields(T)}})
    [] Kind(T) = "ptr" ->
         IF Len(tr) = 0 THEN [h |-> h, v |-> Nil]
         ELSE The({[h |-> Append(r.h, r.v), v |-> Len(r.h) + 1] : r \in {Alloc(h, T.e, tr[1])}})
    [] Kind(T) = "slice" ->
         IF tr.nil THEN [h |-> h, v |-> Nil]
         ELSE The({[h |-> Append(r.h, r.vs), v |-> Len(r.h) + 1] :
                   r \in {AllocAll(h, [i \in 1..Len(tr.s) |-> T.e], tr.s)}})
    [] Kind(T) = "map" ->
         IF tr.nil THEN [h |-> h, v |-> Nil]
         ELSE The({The({[h |-> Append(r.h, [k \in DOMAIN tr.s |->
                                               r.vs[CHOOSE i \in 1..Len(keys) : keys[i] = k]]),
                         v |-> Len(r.h) + 1] :
                        r \in {AllocAll(h, [i \in 1..Len(keys) |-> T.e],
                                        [i \in 1..Len(keys) |-> tr.s[keys[i]]])}}) :
                   keys \in {SetToSeq(DOMAIN tr.s)}})
    [] OTHER -> [h |-> h, v |-> tr]

AllocAll(h, Ts, trs) ==
  IF Len(Ts) = 0 THEN [h |-> h, vs |-> <<>>]
  ELSE The({The({[h |-> rest.h, vs |-> <<r.v>> \o rest.vs] :
                 rest \in {AllocAll(r.h, Tail(Ts), Tail(trs))}}) :
            r \in {Alloc(h, Head(Ts), Head(trs))}})

\* an argument of dynamic type T and value tr: the heap after and the
\* interface value (a value that is no pointer is copied into the interface)
AllocIface(h, T, tr) ==
  IF Kind(T) = "none" THEN [h |-> h, i |-> NilIface]
  ELSE IF Kind(T) = "ptr" THEN The({[h |-> r.h, i |-> Iface(T, r.v)] : r \in {Alloc(h, T, tr)}})
  ELSE The({[h |-> r.h, i |-> Iface(T, r.v)] : r \in {Alloc(h, PtrTo(T), <<tr>>)}})

\* how deep the views of a value below go
ViewDepth == 8

RECURSIVE DeepVal(_, _, _, _)
\* the description of the value v of type T in heap h (the inverse of Alloc)
DeepVal(h, v, T, fuel) ==
  CASE Kind(T) = "struct" ->
         LET deep(ft) == [n \in DOMAIN ft |-> DeepVal(h, v[n], ft[n], fuel)] IN deep(FieldTypes(T))
    [] Kind(T) = "ptr" ->
         IF v = Nil \/ fuel = 0 THEN <<>> ELSE <<DeepVal(h, h[v], T.e, fuel - 1)>>
    [] Kind(T) = "slice" ->
         IF v = Nil \/ fuel = 0 THEN NilColl
         ELSE Coll([i \in 1..Len(h[v]) |-> DeepVal(h, h[v][i], T.e, fuel - 1)])
    [] Kind(T) = "map" ->
         IF v = Nil \/ fuel = 0 THEN NilColl
         ELSE Coll([k \in DOMAIN h[v] |-> DeepVal(h, h[v][k], T.e, fuel - 1)])
    [] OTHER -> v

RECURSIVE Reach(_, _, _, _)
\* the heap objects reachable from the value v of type T, each with the type
\* of the pointer, slice or map that refers to it
Reach(h, v, T, fuel) ==
  CASE Kind(T) = "struct" ->
         LET reach(ft) == UNION {Reach(h, v[n], ft[n], fuel) : n \in DOMAIN ft} IN reach(FieldTypes(T))
    [] Kind(T) = "ptr" ->
         IF v = Nil \/ fuel = 0 THEN {} ELSE {[a |-> v, t |-> T]} \cup Reach(h, h[v], T.e, fuel - 1)
    [] Kind(T) = "slice" ->
         IF v = Nil \/ fuel = 0 THEN {}
         ELSE {[a |-> v, t |-> T]} \cup UNION {Reach(h, h[v][i], T.e, fuel - 1) : i \in 1..Len(h[v])}
    [] Kind(T) = "map" ->
         IF v = Nil \/ fuel = 0 THEN {}
         ELSE {[a |-> v, t |-> T]} \cup UNION {Reach(h, h[v][k], T.e, fuel - 1) : k \in DOMAIN h[v]}
    [] OTHER -> {}

RECURSIVE Scribble(_, _)
\* a value of type T different from v: what a later write stores
Scribble(v, T) ==
  CASE Kind(T) \in NumericKinds -> v + 1
    [] Kind(T) = "string" -> v \o "!"
    [] Kind(T) = "bool" -> ~v
    [] Kind(T) = "struct" ->
         LET scribble(ft) == [n \in DOMAIN ft |-> Scribble(v[n], ft[n])] IN scribble(FieldTypes(T))
    [] OTHER -> Nil

\* the object at address o.a after a write to every element, entry or field of it
Scribbled(h, o) ==
  CASE Kind(o.t) = "ptr" -> Scribble(h[o.a], o.t.e)
    [] Kind(o.t) = "slice" -> [i \in 1..Len(h[o.a]) |-> Scribble(h[o.a][i], o.t.e)]
    [] Kind(o.t) = "map" -> [k \in DOMAIN h[o.a] |-> Scribble(h[o.a][k], o.t.e)]

(***************************************************************************)
(* The calls made: the arguments and options of each scenario.             *)
(***************************************************************************)
User == StructT("User")
UserOld == [Name |-> "Rafa", Email |-> "old@x.com", Age |-> 25]

UserDom == [ints |-> {0, 30}, strs |-> {"", "Alicia"}, lens |-> {}, keys |-> {}]
ConvDom == [ints |-> {0}, strs |-> {"", "42", "abc", "300", "-1", "true", "1.5"}, lens |-> {},
            keys |-> {}]
CollDom == [ints |-> {7}, strs |-> {"a"}, lens |-> {0, 1}, keys |-> {{}, {"k"}}]
NodeDom == [ints |-> {1}, strs |-> {"a"}, lens |-> {1}, keys |-> {{"k"}}]
ZeroDom == [ints |-> {0, 1}, strs |-> {""}, lens |-> {0}, keys |-> {{}}]
TagDom == [ints |-> {1}, strs |-> {"a", "b"}, lens |-> {}, keys |-> {}]

Kinds4 == {"struct", "slice", "map", "ptr"}

RECURSIVE ChainType(_, _)
\* the type nested through the kinds ks, outermost first, down to leaf
ChainType(ks, leaf) ==
  IF Len(ks) = 0 THEN leaf
  ELSE LET inner == ChainType(Tail(ks), leaf) IN
       CASE Head(ks) = "struct" -> WrapT(inner)
         [] Head(ks) = "slice" -> SliceOf(inner)
         [] Head(ks) = "map" -> MapOf(TString, inner)
         [] Head(ks) = "ptr" -> PtrTo(inner)

Chains == UNION {[1..n -> Kinds4] : n \in 0..MaxD}

\* the state before a call of dst (type dT, value dv) and src (type sT, value sv)
Setup(dT, dv, sT, sv, os) ==
  \E d \in {AllocIface(<<>>, dT, dv)} :
  \E g \in {AllocIface(d.h, sT, sv)} :
    /\ heap = g.h
    /\ heap0 = g.h
    /\ snap = g.h
    /\ cache = <<>>
    /\ dstI = d.i
    /\ srcI = g.i
    /\ opts = os
    /\ err = NoErr
    /\ pc = "ready"
    /\ mut = [side |-> "none", a |-> Nil]
    /\ smap = <<>>
    /\ gor = <<>>
    /\ rw = <<>>

\* flat records: names, aliases, strict mode, skip-zero, the tag name
InitUser ==
  \E dT \in {User, StructT("TaggedDst")} :
  \E old \in BOOLEAN :
  \E sT \in {StructT("UserDTO"), StructT("Partial"), StructT("Upper"), StructT("AliasSrc")} :
  \E sv \in Vals(sT, UserDom, 0) :
  \E os \in {<<>>, <<WithIgnoreZeroSource>>, <<WithStrictMode>>,
             <<WithIgnoreZeroSource, WithStrictMode>>, <<WithTagName("json")>>,
             <<WithTagName("")>>, <<WithTagName("json"), WithStrictMode>>} :
    Setup(PtrTo(dT), <<IF ~old THEN ZeroTree(dT) ELSE IF dT = User THEN UserOld ELSE Full(dT, 1)>>,
          sT, sv, os)

\* string fields with a mapconv directive
InitConv ==
  \E dT \in {StructT("DInt"), StructT("DInt8"), StructT("DStr"), StructT("DBool")} :
  \E old \in BOOLEAN :
  \E sT \in {StructT("ConvInt"), StructT("ConvInt8"), StructT("ConvUint8"), StructT("ConvBool"),
             StructT("ConvFloat"), StructT("ConvText"), StructT("ConvPtr")} :
  \E sv \in Vals(sT, ConvDom, 1) :
  \E os \in {<<>>, <<WithIgnoreZeroSource>>} :
    Setup(PtrTo(dT), <<IF old THEN Full(dT, 1) ELSE ZeroTree(dT)>>, sT, sv, os)

\* slices and maps: nil, empty and populated, same and different element types
InitColl ==
  \E dT \in {StructT("Coll"), StructT("CollD")} :
  \E old \in BOOLEAN :
  \E sv \in Vals(StructT("Coll"), CollDom, 1) :
  \E os \in {<<>>, <<WithIgnoreZeroSource>>} :
    Setup(PtrTo(dT), <<IF old THEN Full(dT, 1) ELSE ZeroTree(dT)>>, StructT("Coll"), sv, os)

\* records whose fields are zero, nil or empty, under skip-zero
InitPatch ==
  \E dT \in {StructT("Outer"), StructT("OuterD")} :
  \E old \in BOOLEAN :
  \E sv \in Vals(StructT("Outer"), ZeroDom, 1) :
    Setup(PtrTo(dT), <<IF old THEN Full(dT, 2) ELSE ZeroTree(dT)>>, StructT("Outer"), sv,
          <<WithIgnoreZeroSource>>)

\* nested records whose fields are matched by alias
InitTagged ==
  \E p \in {<<"SrcTaggedPerson", "DstTaggedPerson">>, <<"NestSrc", "NestDst">>} :
  \E old \in BOOLEAN :
  \E sv \in Vals(StructT(p[1]), TagDom, 0) :
  \E os \in {<<>>, <<WithTagName("json")>>, <<WithTagName("")>>} :
    Setup(PtrTo(StructT(p[2])),
          <<IF old THEN Full(StructT(p[2]), 1) ELSE ZeroTree(StructT(p[2]))>>,
          StructT(p[1]), sv, os)

\* nested records, pointers to records, slices and maps of records
InitNested ==
  \E dT \in {StructT("Outer"), StructT("OuterD")} :
  \E old \in BOOLEAN :
  \E sv \in Vals(StructT("Outer"), NodeDom, 2) :
    Setup(PtrTo(dT), <<IF old THEN Full(dT, 2) ELSE ZeroTree(dT)>>, StructT("Outer"), sv, <<>>)

\* a nested record with an unexported slice
InitHidden ==
  \E old \in BOOLEAN :
  \E sv \in Vals(StructT("HOuter"), NodeDom, 1) :
    Setup(PtrTo(StructT("HOuterD")),
          <<IF old THEN Full(StructT("HOuterD"), 1) ELSE ZeroTree(StructT("HOuterD"))>>,
          StructT("HOuter"), sv, <<>>)

\* a field nested through up to MaxD composites, under a depth limit
InitDepth ==
  \E ks \in Chains :
  \E leaf \in {TInt32, TInt64} :
  \E d \in 1..MaxD :
    Setup(PtrTo(WrapT(ChainType(ks, leaf))), <<ZeroTree(WrapT(ChainType(ks, leaf)))>>,
          WrapT(ChainType(ks, TInt32)), Full(WrapT(ChainType(ks, TInt32)), MaxD + 1),
          <<WithMaxDepth(d)>>)

\* a record nested through up to MaxD composites whose field Name cannot be
\* assigned (string -> int): the failure lies below the root
InitPath ==
  \E ks \in Chains :
    Setup(PtrTo(WrapT(ChainType(ks, StructT("LeafD")))),
          <<ZeroTree(WrapT(ChainType(ks, StructT("LeafD"))))>>,
          WrapT(ChainType(ks, StructT("LeafS"))),
          Full(WrapT(ChainType(ks, StructT("LeafS"))), MaxD + 1), <<>>)

\* the options a call is given, in sequences of up to two
OptSet ==
  {WithMaxDepth(0 - 1), WithMaxDepth(0), WithMaxDepth(1), WithMaxDepth(3), WithStrictMode,
   WithIgnoreZeroSource, WithTagName("json")}
OptSeqs == UNION {[1..n -> OptSet] : n \in 0..2}

\* nested records mapped under every sequence of options
InitOpts ==
  \E os \in OptSeqs :
  \E full \in BOOLEAN :
    Setup(PtrTo(StructT("NestDst")), <<Full(StructT("NestDst"), 1)>>, StructT("NestSrc"),
          IF full THEN Full(StructT("NestSrc"), 1) ELSE ZeroTree(StructT("NestSrc")), os)

\* pointer fields mapped into plain fields, at the root and in nested
\* records, into a zero and into a populated destination
InitOptional ==
  \E old \in BOOLEAN :
  \E sv \in Vals(StructT("OptSrc"), NodeDom, 2) :
  \E os \in {<<>>, <<WithIgnoreZeroSource>>} :
    Setup(PtrTo(StructT("OptDst")),
          <<IF old THEN Full(StructT("OptDst"), 2) ELSE ZeroTree(StructT("OptDst"))>>,
          StructT("OptSrc"), sv, os)

\* a map field mapped into map fields of compatible and of incompatible key
\* and value types, at the root and in a nested record
InitMaps ==
  \E d \in {"MapKey", "MapVal", "MapBoth", "MapOk"} :
  \E nested \in BOOLEAN :
  \E old \in BOOLEAN :
  \E sv \in Vals(StructT("MapSrc"), CollDom, 1) :
  \E os \in {<<>>, <<WithIgnoreZeroSource>>, <<WithMaxDepth(2)>>} :
    LET S == IF nested THEN WrapT(StructT("MapSrc")) ELSE StructT("MapSrc")
        D == IF nested THEN WrapT(StructT(d)) ELSE StructT(d)
    IN  Setup(PtrTo(D), <<IF old THEN Full(D, 2) ELSE ZeroTree(D)>>, S,
              IF nested THEN [F |-> sv] ELSE sv, os)

\* nested records mapped under strict mode: the root fields all match, the
\* nested destination records have the field Extra, which nothing matches
InitStrict ==
  \E old \in BOOLEAN :
  \E sv \in Vals(StructT("Outer"), NodeDom, 1) :
  \E os \in {<<WithStrictMode>>, <<WithStrictMode, WithIgnoreZeroSource>>} :
    Setup(PtrTo(StructT("OuterD")),
          <<IF old THEN Full(StructT("OuterD"), 2) ELSE ZeroTree(StructT("OuterD"))>>,
          StructT("Outer"), sv, os)

SameDom == [ints |-> {7}, strs |-> {"42", "abc"}, lens |-> {1}, keys |-> {{"k"}}]

\* a nested record mapped into a nested record of the identical type: plain
\* fields, a string field with a mapconv directive, an unexported slice
InitSame ==
  \E T \in {User, StructT("ConvInt"), StructT("Hidden")} :
  \E old \in BOOLEAN :
  \E sv \in Vals(WrapT(T), SameDom, 1) :
    Setup(PtrTo(WrapT(T)), <<IF old THEN Full(WrapT(T), 1) ELSE ZeroTree(WrapT(T))>>,
          WrapT(T), sv, <<>>)

\* records of several fields of which B cannot be assigned (string -> int32),
\* at the root (RollIn -> RollInD) and in the nested record In
InitRoll ==
  \E p \in {<<"RollIn", "RollInD">>, <<"RollSrc", "RollDst">>} :
  \E old \in BOOLEAN :
  \E os \in {<<>>, <<WithStrictMode>>} :
    Setup(PtrTo(StructT(p[2])),
          <<IF old THEN Full(StructT(p[2]), 1) ELSE ZeroTree(StructT(p[2]))>>,
          StructT(p[1]), The(Vals(StructT(p[1]), NodeDom, 0)), os)

\* a []string field, nil, empty or populated, mapped into a []int32 and into
\* a []string field, at the root and in a nested record
InitSlices ==
  \E d \in {"SliceBad", "SliceOk"} :
  \E nested \in BOOLEAN :
  \E old \in BOOLEAN :
  \E sv \in Vals(StructT("SliceSrc"), CollDom, 1) :
  \E os \in {<<>>, <<WithIgnoreZeroSource>>} :
    LET S == IF nested THEN WrapT(StructT("SliceSrc")) ELSE StructT("SliceSrc")
        D == IF nested THEN WrapT(StructT(d)) ELSE StructT(d)
    IN  Setup(PtrTo(D), <<IF old THEN Full(D, 2) ELSE ZeroTree(D)>>, S,
              IF nested THEN [F |-> sv] ELSE sv, os)

\* pointer fields, nil or not, mapped into pointer fields of the same and of
\* other pointee types (PtrBad: *string -> *int32 and a record pointee with
\* a field that cannot be assigned), under depth limits too
InitPointers ==
  \E d \in {"PtrDst", "PtrBad"} :
  \E old \in BOOLEAN :
  \E sv \in Vals(StructT("PtrSrc"), NodeDom, 1) :
  \E os \in {<<>>, <<WithMaxDepth(1)>>, <<WithMaxDepth(2)>>} :
    Setup(PtrTo(StructT(d)),
          <<IF old THEN Full(StructT(d), 1) ELSE ZeroTree(StructT(d))>>,
          StructT("PtrSrc"), sv, os)

\* texts at the edges of the integer widths, each with the directives that
\* parse it: a text denoting an integer beyond 2^31 - 1 in size is given to
\* the directives of at most that many bits only
RangeTexts(k) ==
  {"", "abc", "0", "42", "-1", "127", "128", "-128", "-129", "255", "256", "32767", "32768",
   "-32768", "-32769", "65535", "65536", "2147483646"}
    \cup (IF k \in {"int8", "int16", "int32", "uint8", "uint16"}
          THEN {"2147483648", "-2147483649"} ELSE {})
    \cup (IF Bits(k) <= 32 THEN {"4294967296"} ELSE {})
    \cup (IF k # "uint64" THEN {"9223372036854775808"} ELSE {})
    \cup {"-9223372036854775809", "18446744073709551616"}

\* a string field with the directive intN or uintN, into a field of that kind
InitRange ==
  \E k \in IntegerKinds \ {"int", "uint"} :
  \E s \in RangeTexts(k) :
  \E old \in BOOLEAN :
    Setup(PtrTo(StructT("Num_" \o k)), <<[V |-> IF old THEN 9 ELSE 0]>>,
          StructT("Text_" \o k), [V |-> s], <<>>)

\* slices, maps and pointers of records, at the root and in a nested record,
\* into populated or empty destinations: the elements' field B cannot be
\* assigned (AtomD), or the depth limit is reached inside them
InitAtomic ==
  \E d \in {"AtomS", "AtomD"} :
  \E old \in BOOLEAN :
  \E sv \in Vals(StructT("AtomS"), NodeDom, 2) :
  \E os \in {<<>>} \cup {<<WithMaxDepth(n)>> : n \in 1..MaxD} :
    Setup(PtrTo(StructT(d)),
          <<IF old THEN Full(StructT(d), 2) ELSE ZeroTree(StructT(d))>>,
          StructT("AtomS"), sv, os)

\* 32-bit integers, in a field, a slice and the keys and values of a map,
\* into 8-bit ones: values that fit and values that do not
InitNarrow ==
  \E v \in {5, 300, 0 - 1} :
  \E n \in {5, 256} :
  \E mm \in {[k \in {1} |-> 5], [k \in {1} |-> 200], [k \in {1, 257} |-> k]} :
  \E old \in BOOLEAN :
    Setup(PtrTo(StructT("NarrowD")),
          <<IF old THEN Full(StructT("NarrowD"), 1) ELSE ZeroTree(StructT("NarrowD"))>>,
          StructT("WideS"), [V |-> v, Nums |-> Coll(<<n>>), M |-> Coll(mm)], <<>>)

\* linked nodes, under the default or a given depth limit
InitNode ==
  \E dT \in {StructT("Node"), StructT("NodeD")} :
  \E sv \in Vals(StructT("Node"), NodeDom, 2) :
  \E os \in {<<>>} \cup {<<WithMaxDepth(d)>> : d \in 1..MaxD} :
    Setup(PtrTo(dT), <<ZeroTree(dT)>>, StructT("Node"), sv, os)

\* the cyclic sources: the source record is the object at address 2 (the
\* destination is at 1) and refers to itself through a pointer, through a
\* second node, through a slice that holds its own record, or through a map
CyclicSrc(i) ==
  CASE i = 1 -> [sT |-> StructT("Node"), dT |-> StructT("Node"),
                 objs |-> <<[Val |-> 1, Next |-> 2]>>]
    [] i = 2 -> [sT |-> StructT("Node"), dT |-> StructT("NodeD"),
                 objs |-> <<[Val |-> 1, Next |-> 2]>>]
    [] i = 3 -> [sT |-> StructT("Node"), dT |-> StructT("Node"),
                 objs |-> <<[Val |-> 1, Next |-> 3], [Val |-> 2, Next |-> 2]>>]
    [] i = 4 -> [sT |-> StructT("Node"), dT |-> StructT("NodeD"),
                 objs |-> <<[Val |-> 1, Next |-> 3], [Val |-> 2, Next |-> 2]>>]
    [] i = 5 -> [sT |-> StructT("Tree"), dT |-> StructT("Tree"),
                 objs |-> <<[Val |-> 1, Kids |-> 3], <<[Val |-> 2, Kids |-> 3]>>>>]
    [] i = 6 -> [sT |-> StructT("Graph"), dT |-> StructT("Graph"),
                 objs |-> <<[Val |-> 1, Adj |-> 3], [k \in {"k"} |-> 2]>>]

\* a source that refers to itself, passed by pointer, under a depth limit
InitCyclic ==
  \E i \in 1..6 :
  \E os \in {<<WithMaxDepth(d)>> : d \in 1..(2 * MaxD)} :
    /\ heap = <<Zero(CyclicSrc(i).dT)>> \o CyclicSrc(i).objs
    /\ heap0 = heap
    /\ snap = heap
    /\ cache = <<>>
    /\ dstI = Iface(PtrTo(CyclicSrc(i).dT), 1)
    /\ srcI = Iface(PtrTo(CyclicSrc(i).sT), 2)
    /\ opts = os
    /\ err = NoErr
    /\ pc = "ready"
    /\ mut = [side |-> "none", a |-> Nil]
    /\ smap = <<>>
    /\ gor = <<>>
    /\ rw = <<>>

\* the destination is the source's own record, or the record its Next refers
\* to:  n := &Node{1, &Node{2, nil}};  Map(n, n), Map(n.Next, n), Map(n.Next, *n)
InitAlias ==
  \E d \in {1, 2} :
  \E sT \in {PtrTo(StructT("Node")), StructT("Node")} :
  \E os \in {<<>>, <<WithMaxDepth(1)>>, <<WithIgnoreZeroSource>>} :
    /\ heap = <<[Val |-> 1, Next |-> 2], [Val |-> 2, Next |-> Nil]>>
    /\ heap0 = heap
    /\ snap = heap
    /\ cache = <<>>
    /\ dstI = Iface(PtrTo(StructT("Node")), d)
    /\ srcI = Iface(sT, 1)
    /\ opts = os
    /\ err = NoErr
    /\ pc = "ready"
    /\ mut = [side |-> "none", a |-> Nil]
    /\ smap = <<>>
    /\ gor = <<>>
    /\ rw = <<>>

\* the arguments of the root call, well-formed or not
DstArg(i) ==
  CASE i = 1 -> [t |-> [k |-> "none"], v |-> <<>>]
    [] i = 2 -> [t |-> User, v |-> UserOld]
    [] i = 3 -> [t |-> PtrTo(User), v |-> <<>>]
    [] i = 4 -> [t |-> PtrTo(TInt), v |-> <<5>>]
    [] i = 5 -> [t |-> PtrTo(User), v |-> <<UserOld>>]

SrcArg(i) ==
  CASE i = 1 -> [t |-> [k |-> "none"], v |-> <<>>]
    [] i = 2 -> [t |-> PtrTo(StructT("UserDTO")), v |-> <<>>]
    [] i = 3 -> [t |-> PtrTo(StructT("UserDTO")), v |-> <<[Name |-> "Alicia", Email |-> "", Age |-> 30]>>]
    [] i = 4 -> [t |-> StructT("UserDTO"), v |-> [Name |-> "Alicia", Email |-> "", Age |-> 30]]
    [] i = 5 -> [t |-> TInt, v |-> 7]
    [] i = 6 -> [t |-> PtrTo(TInt), v |-> <<7>>]
    [] i = 7 -> [t |-> PtrTo(PtrTo(StructT("UserDTO"))),
                 v |-> <<<<[Name |-> "Alicia", Email |-> "", Age |-> 30]>>>>]

InitRoot ==
  \E i \in 1..5 :
  \E j \in 1..7 :
  \E os \in {<<>>, <<WithStrictMode>>} :
    Setup(DstArg(i).t, DstArg(i).v, SrcArg(j).t, SrcArg(j).v, os)

Init ==
  \/ InitUser
  \/ InitConv
  \/ InitColl
  \/ InitPatch
  \/ InitTagged
  \/ InitNested
  \/ InitHidden
  \/ InitDepth
  \/ InitPath
  \/ InitOpts
  \/ InitOptional
  \/ InitMaps
  \/ InitStrict
  \/ InitSame
  \/ InitRoll
  \/ InitSlices
  \/ InitPointers
  \/ InitRange
  \/ InitNode
  \/ InitAtomic
  \/ InitNarrow
  \/ InitCyclic
  \/ InitAlias
  \/ InitRoot

(***************************************************************************)
(* The actions: the call, and a write by the caller after it returned.     *)
(***************************************************************************)
Rots == {[r |-> i, rev |-> b] : i \in 0..(MaxRot - 1), b \in BOOLEAN}

Returned(r) ==
  /\ heap' = r.m.h
  /\ snap' = r.m.h
  /\ cache' = r.m.c
  /\ err' = r.e
  /\ pc' = "done"
  /\ UNCHANGED <<heap0, dstI, srcI, opts, mut, smap, gor, rw>>

\* Map(dst, src)
Map ==
  /\ pc = "ready"
  /\ opts = <<>>
  /\ \E rot \in Rots :
       \E r \in {MapWithOptions([h |-> heap, c |-> cache], dstI, srcI, <<>>, rot)} : Returned(r)

\* MapWithOptions(dst, src, opts...)
MapOpts ==
  /\ pc = "ready"
  /\ \E rot \in Rots :
       \E r \in {MapWithOptions([h |-> heap, c |-> cache], dstI, srcI, opts, rot)} : Returned(r)

\* the struct type a well-formed argument refers to
SrcRootType == IF Kind(srcI.t) = "ptr" THEN srcI.t.e ELSE srcI.t
DstRootType == dstI.t.e

SrcObjects(h) == Reach(h, srcI.a, PtrTo(SrcRootType), ViewDepth)
DstObjects(h) == Reach(h, dstI.a, PtrTo(DstRootType), ViewDepth)

Written(side, o) ==
  /\ heap' = [heap EXCEPT ![o.a] = Scribbled(heap, o)]
  /\ mut' = [side |-> side, a |-> o.a]
  /\ pc' = "mutated"
  /\ UNCHANGED <<heap0, snap, cache, dstI, srcI, opts, err, smap, gor, rw>>

\* after a successful call the caller writes to something the source reaches
MutateSrc ==
  /\ pc = "done"
  /\ err.kind = "nil"
  /\ \E o \in SrcObjects(heap) : Written("src", o)

\* after a successful call the caller writes to something the destination reaches
MutateDst ==
  /\ pc = "done"
  /\ err.kind = "nil"
  /\ \E o \in DstObjects(heap) : Written("dst", o)

Next ==
  \/ Map
  \/ MapOpts
  \/ MutateSrc
  \/ MutateDst

Spec == Init /\ [][Next]_vars

\* the calls whose progress is checked: nested and linked values under a
\* depth limit, sources that refer to themselves, and arguments that fail
\* the root checks
InitCalls ==
  \/ InitHidden
  \/ InitDepth
  \/ InitNode
  \/ InitCyclic
  \/ InitRoot

\* a call that was made runs on until it returns: the engine is one
\* synchronous computation with no point where it waits
FairSpec == InitCalls /\ [][Next]_vars /\ WF_vars(MapOpts)


(***************************************************************************)
(* getStructMeta called by several goroutines at once.  structMetaCache is *)
(* a sync.Map: Load and LoadOrStore are atomic, and what a goroutine does  *)
(* between them (buildStructMeta on an object of its own) is not.          *)
(***************************************************************************)
\* the goroutines, and the calls they make in all
NumG == 2
MaxCalls == 3

\* the types and tag names the calls are made with
MetaTypes == {User, StructT("AliasSrc"), TInt}
MetaTags == {"map", "json"}

NotStructReason == "type is not a struct"

\* a goroutine between two calls, n calls made
Idle(n) ==
  [at |-> "idle", t |-> [k |-> "none"], tagName |-> "", m |-> Nil, ret |-> Nil, e |-> NoErr,
   n |-> n]

RECURSIVE CallsMade(_, _)
\* the calls made so far by the goroutines 1..g of gs
CallsMade(gs, g) ==
  IF g = 0 THEN 0
  ELSE CallsMade(gs, g - 1) + gs[g].n + (IF gs[g].at = "idle" THEN 0 ELSE 1)

\* structMetaCache.Load(key)
Load(tbl, key) ==
  IF key \in DOMAIN tbl THEN [value |-> tbl[key], ok |-> TRUE] ELSE [value |-> Nil, ok |-> FALSE]

\* a Store in the place of LoadOrStore: the last writer wins
StoreOver(tbl, key, m) == [tbl |-> (key :> m) @@ tbl, actual |-> m]

\* structMetaCache.LoadOrStore(key, m): the value present, or else m stored
LoadOrStore(tbl, key, m) ==
  IF key \in DOMAIN tbl THEN [tbl |-> tbl, actual |-> tbl[key]]
  ELSE [tbl |-> tbl @@ (key :> m), actual |-> m]

CacheInit ==
  /\ heap = <<>>
  /\ heap0 = <<>>
  /\ snap = <<>>
  /\ cache = <<>>
  /\ dstI = NilIface
  /\ srcI = NilIface
  /\ opts = <<>>
  /\ err = NoErr
  /\ pc = "goroutines"
  /\ mut = [side |-> "none", a |-> Nil]
  /\ smap = <<>>
  /\ gor = [g \in 1..NumG |-> Idle(0)]
  /\ rw = <<>>

\* goroutine g calls getStructMeta(t, tagName); a type that is no struct is
\* refused at once
CallGetStructMeta(g) ==
  /\ pc = "goroutines"
  /\ gor[g].at = "idle"
  /\ CallsMade(gor, NumG) < MaxCalls
  /\ \E t \in MetaTypes :
     \E tagName \in MetaTags :
       gor' = [gor EXCEPT ![g] =
                 IF Kind(t) # "struct"
                 THEN [@ EXCEPT !.at = "returned", !.t = t, !.tagName = tagName,
                                !.e = MErr("", "", "", NotStructReason)]
                 ELSE [@ EXCEPT !.at = "load", !.t = t, !.tagName = tagName]]
  /\ UNCHANGED <<heap, heap0, snap, cache, dstI, srcI, opts, err, pc, mut, smap, rw>>

\* if cached, ok := structMetaCache.Load(key); ok { return cached.(*structMeta), nil }
CacheLoad(g) ==
  /\ pc = "goroutines"
  /\ gor[g].at = "load"
  /\ \E l \in {Load(smap, cacheKey(gor[g].t, gor[g].tagName))} :
       gor' = [gor EXCEPT ![g] = IF l.ok THEN [@ EXCEPT !.at = "returned", !.ret = l.value]
                                 ELSE [@ EXCEPT !.at = "build"]]
  /\ UNCHANGED <<heap, heap0, snap, cache, dstI, srcI, opts, err, pc, mut, smap, rw>>

\* m := buildStructMeta(t, tagName): a new object
Build(g) ==
  /\ pc = "goroutines"
  /\ gor[g].at = "build"
  /\ heap' = Append(heap, buildStructMeta(gor[g].t, gor[g].tagName))
  /\ gor' = [gor EXCEPT ![g].at = "store", ![g].m = Len(heap) + 1]
  /\ UNCHANGED <<heap0, snap, cache, dstI, srcI, opts, err, pc, mut, smap, rw>>

\* actual, _ := structMetaCache.LoadOrStore(key, m); return actual.(*structMeta), nil
CacheLoadOrStore(g) ==
  /\ pc = "goroutines"
  /\ gor[g].at = "store"
  /\ \E s \in {LoadOrStore(smap, cacheKey(gor[g].t, gor[g].tagName), gor[g].m)} :
       /\ smap' = s.tbl
       /\ gor' = [gor EXCEPT ![g].at = "returned", ![g].ret = s.actual]
  /\ UNCHANGED <<heap, heap0, snap, cache, dstI, srcI, opts, err, pc, mut, rw>>

\* the caller has the result and goes on
ReturnMeta(g) ==
  /\ pc = "goroutines"
  /\ gor[g].at = "returned"
  /\ gor' = [gor EXCEPT ![g] = Idle(@.n + 1)]
  /\ UNCHANGED <<heap, heap0, snap, cache, dstI, srcI, opts, err, pc, mut, smap, rw>>

CacheNext ==
  \E g \in 1..NumG :
    \/ CallGetStructMeta(g)
    \/ CacheLoad(g)
    \/ Build(g)
    \/ CacheLoadOrStore(g)
    \/ ReturnMeta(g)

CacheSpec == CacheInit /\ [][CacheNext]_vars

(***************************************************************************)
(* getStructMeta over the two-level cache: typeCache maps a type to its    *)
(* tagCache under typeCacheLock, and each tagCache maps a tag name to a    *)
(* table under a lock of its own.  Both locks are sync.RWMutex: a writer   *)
(* that has called Lock keeps new readers out until it has held the lock.  *)
(***************************************************************************)
\* the calls the goroutines make in all to the two-level cache
RWCalls == 3

\* an RWMutex: the writer holding it (0: none), the readers holding it and
\* the writers waiting in Lock
FreeLock == [w |-> 0, r |-> {}, q |-> {}]

\* RLock returns when no writer holds the lock or waits for it
CanRLock(l) == l.w = 0 /\ l.q = {}
RLock(l, g) == [l EXCEPT !.r = @ \cup {g}]

\* a reader that does not release the lock
keepRLock(l, g) == l

RUnlock(l, g) == [l EXCEPT !.r = @ \ {g}]

\* Lock announces the writer, then returns when no reader and no writer
\* holds the lock
LockRequest(l, g) == [l EXCEPT !.q = @ \cup {g}]
CanLock(l, g) == g \in l.q /\ l.w = 0 /\ l.r = {}
Lock(l, g) == [l EXCEPT !.w = g, !.q = @ \ {g}]
Unlock(l, g) == [l EXCEPT !.w = 0]

\* the key of typeCache for type t, and the tagCache of goroutine g's type
TypeKey(t) == TypeString(t)
Tc(g) == rw.typeCache[TypeKey(gor[g].t)]

RWInit ==
  /\ heap = <<>>
  /\ heap0 = <<>>
  /\ snap = <<>>
  /\ cache = <<>>
  /\ dstI = NilIface
  /\ srcI = NilIface
  /\ opts = <<>>
  /\ err = NoErr
  /\ pc = "locks"
  /\ mut = [side |-> "none", a |-> Nil]
  /\ smap = <<>>
  /\ gor = [g \in 1..NumG |-> Idle(0)]
  /\ rw = [typeCacheLock |-> FreeLock, typeCache |-> <<>>]

\* goroutine g calls getStructMeta(t, tagName)
RWCall(g) ==
  /\ pc = "locks"
  /\ gor[g].at = "idle"
  /\ CallsMade(gor, NumG) < RWCalls
  /\ \E t \in MetaTypes :
     \E tagName \in MetaTags :
       gor' = [gor EXCEPT ![g] =
                 IF Kind(t) # "struct"
                 THEN [@ EXCEPT !.at = "returned", !.t = t, !.tagName = tagName,
                                !.e = MErr("", "", "", NotStructReason)]
                 ELSE [@ EXCEPT !.at = "typeRLock", !.t = t, !.tagName = tagName]]
  /\ UNCHANGED <<heap, heap0, snap, cache, dstI, srcI, opts, err, pc, mut, smap, rw>>

\* typeCacheLock.RLock()
TypeRLock(g) ==
  /\ pc = "locks"
  /\ gor[g].at = "typeRLock"
  /\ CanRLock(rw.typeCacheLock)
  /\ rw' = [rw EXCEPT !.typeCacheLock = RLock(@, g)]
  /\ gor' = [gor EXCEPT ![g].at = "typeRead"]
  /\ UNCHANGED <<heap, heap0, snap, cache, dstI, srcI, opts, err, pc, mut, smap>>

\* tc := typeCache[t]; typeCacheLock.RUnlock()
TypeRead(g) ==
  /\ pc = "locks"
  /\ gor[g].at = "typeRead"
  /\ rw' = [rw EXCEPT !.typeCacheLock = RUnlock(@, g)]
  /\ gor' = [gor EXCEPT ![g].at = IF TypeKey(gor[g].t) \in DOMAIN rw.typeCache
                                  THEN "tagRLock" ELSE "build"]
  /\ UNCHANGED <<heap, heap0, snap, cache, dstI, srcI, opts, err, pc, mut, smap>>

\* if tc != nil { tc.RLock()
TagRLock(g) ==
  /\ pc = "locks"
  /\ gor[g].at = "tagRLock"
  /\ CanRLock(Tc(g).lock)
  /\ rw' = [rw EXCEPT !.typeCache[TypeKey(gor[g].t)].lock = RLock(@, g)]
  /\ gor' = [gor EXCEPT ![g].at = "tagRead"]
  /\ UNCHANGED <<heap, heap0, snap, cache, dstI, srcI, opts, err, pc, mut, smap>>

\* if m := tc.entries[tagName]; m != nil { tc.RUnlock(); return m, nil }; tc.RUnlock()
TagRead(g) ==
  /\ pc = "locks"
  /\ gor[g].at = "tagRead"
  /\ rw' = [rw EXCEPT !.typeCache[TypeKey(gor[g].t)].lock = RUnlock(@, g)]
  /\ gor' = [gor EXCEPT ![g] =
               IF gor[g].tagName \in DOMAIN Tc(g).entries
               THEN [@ EXCEPT !.at = "returned", !.ret = Tc(g).entries[gor[g].tagName]]
               ELSE [@ EXCEPT !.at = "build"]]
  /\ UNCHANGED <<heap, heap0, snap, cache, dstI, srcI, opts, err, pc, mut, smap>>

\* m := buildStructMeta(t, tagName): a new object
RWBuild(g) ==
  /\ pc = "locks"
  /\ gor[g].at = "build"
  /\ heap' = Append(heap, buildStructMeta(gor[g].t, gor[g].tagName))
  /\ gor' = [gor EXCEPT ![g].at = "typeLock", ![g].m = Len(heap) + 1]
  /\ UNCHANGED <<heap0, snap, cache, dstI, srcI, opts, err, pc, mut, smap, rw>>

\* typeCacheLock.Lock() is called
TypeLockRequest(g) ==
  /\ pc = "locks"
  /\ gor[g].at = "typeLock"
  /\ rw' = [rw EXCEPT !.typeCacheLock = LockRequest(@, g)]
  /\ gor' = [gor EXCEPT ![g].at = "typeLockWait"]
  /\ UNCHANGED <<heap, heap0, snap, cache, dstI, srcI, opts, err, pc, mut, smap>>

\* typeCacheLock.Lock() returns
TypeLock(g) ==
  /\ pc = "locks"
  /\ gor[g].at = "typeLockWait"
  /\ CanLock(rw.typeCacheLock, g)
  /\ rw' = [rw EXCEPT !.typeCacheLock = Lock(@, g)]
  /\ gor' = [gor EXCEPT ![g].at = "typeStore"]
  /\ UNCHANGED <<heap, heap0, snap, cache, dstI, srcI, opts, err, pc, mut, smap>>

\* tc = typeCache[t]; if tc == nil { tc = &tagCache{...}; typeCache[t] = tc };
\* typeCacheLock.Unlock()
TypeStore(g) ==
  /\ pc = "locks"
  /\ gor[g].at = "typeStore"
  /\ rw' = [rw EXCEPT !.typeCacheLock = Unlock(@, g),
                      !.typeCache = IF TypeKey(gor[g].t) \in DOMAIN @ THEN @
                                    ELSE @ @@ (TypeKey(gor[g].t) :>
                                                 [lock |-> FreeLock, entries |-> <<>>])]
  /\ gor' = [gor EXCEPT ![g].at = "tagLock"]
  /\ UNCHANGED <<heap, heap0, snap, cache, dstI, srcI, opts, err, pc, mut, smap>>

\* tc.Lock() is called
TagLockRequest(g) ==
  /\ pc = "locks"
  /\ gor[g].at = "tagLock"
  /\ rw' = [rw EXCEPT !.typeCache[TypeKey(gor[g].t)].lock = LockRequest(@, g)]
  /\ gor' = [gor EXCEPT ![g].at = "tagLockWait"]
  /\ UNCHANGED <<heap, heap0, snap, cache, dstI, srcI, opts, err, pc, mut, smap>>

\* tc.Lock() returns
TagLock(g) ==
  /\ pc = "locks"
  /\ gor[g].at = "tagLockWait"
  /\ CanLock(Tc(g).lock, g)
  /\ rw' = [rw EXCEPT !.typeCache[TypeKey(gor[g].t)].lock = Lock(@, g)]
  /\ gor' = [gor EXCEPT ![g].at = "tagStore"]
  /\ UNCHANGED <<heap, heap0, snap, cache, dstI, srcI, opts, err, pc, mut, smap>>

\* if existing := tc.entries[tagName]; existing != nil { tc.Unlock(); return
\* existing, nil }; tc.entries[tagName] = m; tc.Unlock(); return m, nil
TagStore(g) ==
  /\ pc = "locks"
  /\ gor[g].at = "tagStore"
  /\ rw' = [rw EXCEPT !.typeCache[TypeKey(gor[g].t)] =
              [lock |-> Unlock(@.lock, g),
               entries |-> IF gor[g].tagName \in DOMAIN @.entries THEN @.entries
                           ELSE @.entries @@ (gor[g].tagName :> gor[g].m)]]
  /\ gor' = [gor EXCEPT ![g].at = "returned",
                        ![g].ret = IF gor[g].tagName \in DOMAIN Tc(g).entries
                                   THEN Tc(g).entries[gor[g].tagName] ELSE gor[g].m]
  /\ UNCHANGED <<heap, heap0, snap, cache, dstI, srcI, opts, err, pc, mut, smap>>

\* the caller has the result and goes on
RWReturn(g) ==
  /\ pc = "locks"
  /\ gor[g].at = "returned"
  /\ gor' = [gor EXCEPT ![g] = Idle(@.n + 1)]
  /\ UNCHANGED <<heap, heap0, snap, cache, dstI, srcI, opts, err, pc, mut, smap, rw>>

\* a step of goroutine g
RWStep(g) ==
  \/ RWCall(g)
  \/ TypeRLock(g)
  \/ TypeRead(g)
  \/ TagRLock(g)
  \/ TagRead(g)
  \/ RWBuild(g)
  \/ TypeLockRequest(g)
  \/ TypeLock(g)
  \/ TypeStore(g)
  \/ TagLockRequest(g)
  \/ TagLock(g)
  \/ TagStore(g)
  \/ RWReturn(g)

RWNext == \E g \in 1..NumG : RWStep(g)

\* every goroutine that can take a step takes one in the end: the scheduler
\* runs each runnable goroutine, and a goroutine waiting for a lock is woken
\* when the lock is released
RWSpec == RWInit /\ [][RWNext]_vars /\ \A g \in 1..NumG : WF_vars(RWStep(g))



(***************************************************************************)
(* What the properties below speak of.                                     *)
(***************************************************************************)
\* the configuration of the call
Config == ApplyOptions(defaultConfig, opts)

\* the arguments pass the root checks of the call
WellFormed ==
  /\ ~dstI.isnil
  /\ ~srcI.isnil
  /\ Kind(dstI.t) = "ptr"
  /\ dstI.a # Nil
  /\ Kind(dstI.t.e) = "struct"
  /\ (Kind(srcI.t) = "ptr" => srcI.a # Nil)
  /\ Kind(SrcRootType) = "struct"

\* the names of the exported fields of struct type T
Exported(T) ==
  {StructFields(T)[i].n : i \in {j \in 1..Len(StructFields(T)) : StructFields(T)[j].x}}

\* the declared field of name n of struct type T
Field(T, n) == StructFields(T)[CHOOSE i \in 1..Len(StructFields(T)) : StructFields(T)[i].n = n]

\* the source fields of struct type sT that the destination name N resolves
\* to under the tag name tag: the field of that name, or else the fields of
\* that alias; empty when there is none
Resolved(sT, N, tag) ==
  IF N \in Exported(sT) THEN {N}
  ELSE {n \in Exported(sT) : tag # "" /\ TagGet(Field(sT, n), tag) = N}

\* the destination names of the root record that resolve to no source field
Unmatched == {N \in Exported(DstRootType) : Resolved(SrcRootType, N, Config.tagName) = {}}

\* the described value of field n of the record of type T at address a
FieldView(h, a, T, n) == DeepVal(h, h[a][n], FieldTypes(T)[n], ViewDepth)

\* a pair of field types assigned by a plain copy
SimplePair(S, D) == S = D /\ ~IsCompositeKind(Kind(S))

(***************************************************************************)
(* C1: independence of source and destination after a successful call.     *)
(***************************************************************************)
\* a record type that declares a composite field
ContainsComposite(T) ==
  \E i \in 1..Len(StructFields(T)) : IsCompositeKind(Kind(StructFields(T)[i].t))

\* the shapes C1 speaks of: a sequence, a map, a record containing
\* composites, an optional wrapping a composite
CompositeShape(T) ==
  \/ Kind(T) \in {"slice", "map"}
  \/ Kind(T) = "struct" /\ ContainsComposite(T)
  \/ Kind(T) = "ptr" /\ IsCompositeKind(Kind(T.e))

\* C1: after a successful call, for every matched destination field of the
\* root record whose shape is a sequence, a map, a record containing
\* composites or an optional wrapping a composite, a later write to anything
\* the source reaches leaves the destination field's value (at every nesting
\* level) as the call left it, and a later write to anything the destination
\* reaches leaves the source field's value as it was.
C1_Independence ==
  pc = "mutated" =>
    \A N \in Exported(DstRootType) :
      \A f \in Resolved(SrcRootType, N, Config.tagName) :
        CompositeShape(FieldTypes(DstRootType)[N]) =>
          /\ mut.side = "src" =>
               FieldView(heap, dstI.a, DstRootType, N) = FieldView(snap, dstI.a, DstRootType, N)
          /\ mut.side = "dst" =>
               FieldView(heap, srcI.a, SrcRootType, f) = FieldView(snap, srcI.a, SrcRootType, f)

(***************************************************************************)
(* C2: nil and empty sequences and maps.                                   *)
(***************************************************************************)
\* a sequence or map value that is non-nil and has no element
Empty(h, a) == a # Nil /\ DOMAIN h[a] = {}

RECURSIVE NilKept(_, _, _, _)
\* every matched sequence or map field of the destination record dv (type
\* dT) is nil exactly when the source's is and empty exactly when the
\* source's is, in the record and in the records nested in it
NilKept(dv, dT, sv, sT) ==
  \A N \in Exported(dT) :
    \A f \in Resolved(sT, N, Config.tagName) :
      CASE Kind(FieldTypes(dT)[N]) \in {"slice", "map"}
             /\ Kind(FieldTypes(sT)[f]) = Kind(FieldTypes(dT)[N]) ->
               /\ dv[N] = Nil <=> sv[f] = Nil
               /\ Empty(snap, dv[N]) <=> Empty(heap0, sv[f])
        [] Kind(FieldTypes(dT)[N]) = "struct" /\ Kind(FieldTypes(sT)[f]) = "struct" ->
               NilKept(dv[N], FieldTypes(dT)[N], sv[f], FieldTypes(sT)[f])
        [] OTHER -> TRUE

\* C2: under the default configuration, after a successful Map call every
\* matched sequence or map destination field is nil exactly when the source
\* field is nil, and non-nil of length 0 exactly when the source field is
\* non-nil and empty, whatever the destination held before and whether or
\* not the element types differ.
C2_NilEmptyPreserved ==
  pc = "done" /\ WellFormed /\ opts = <<>> /\ err.kind = "nil" =>
    NilKept(snap[dstI.a], DstRootType, heap0[srcI.a], SrcRootType)

\* a call that maps an empty []int32 and a nil map over a populated destination
\* of element type int64
C2_Witness ==
  /\ pc = "done"
  /\ WellFormed
  /\ opts = <<>>
  /\ err.kind = "nil"
  /\ SrcRootType = StructT("Coll")
  /\ DstRootType = StructT("CollD")
  /\ Empty(heap0, heap0[srcI.a].Nums)
  /\ heap0[srcI.a].M = Nil
  /\ heap0[dstI.a].Nums # Nil
  /\ ~Empty(heap0, heap0[dstI.a].Nums)
  /\ heap0[dstI.a].M # Nil
  /\ Empty(snap, snap[dstI.a].Nums)
  /\ snap[dstI.a].M = Nil

(***************************************************************************)
(* C3: the depth limit.                                                    *)
(***************************************************************************)
\* the largest of a set of naturals, 0 for none
Max(S) == IF S = {} THEN 0 ELSE CHOOSE x \in S : \A y \in S : y <= x

RECURSIVE ValLevels(_, _, _, _)
\* how many levels the value v of type T is nested: each record, sequence,
\* map and non-nil pointer on the longest way down is a level
ValLevels(h, v, T, fuel) ==
  CASE Kind(T) = "struct" ->
         1 + Max({ValLevels(h, v[n], FieldTypes(T)[n], fuel) : n \in DOMAIN FieldTypes(T)})
    [] Kind(T) = "ptr" ->
         IF v = Nil \/ fuel = 0 THEN 0 ELSE 1 + ValLevels(h, h[v], T.e, fuel - 1)
    [] Kind(T) \in {"slice", "map"} ->
         IF v = Nil \/ fuel = 0 THEN 1
         ELSE 1 + Max({ValLevels(h, h[v][k], T.e, fuel - 1) : k \in DOMAIN h[v]})
    [] OTHER -> 0

\* what an object refers to: the objects reachable from its contents
Below(h, o) ==
  CASE Kind(o.t) = "ptr" -> Reach(h, h[o.a], o.t.e, ViewDepth)
    [] OTHER -> UNION {Reach(h, h[o.a][k], o.t.e, ViewDepth) : k \in DOMAIN h[o.a]}

\* the source refers to itself: some object it reaches is reachable from its
\* own contents
SrcCyclic == \E o \in SrcObjects(heap0) : \E q \in Below(heap0, o) : q.a = o.a

\* the call was given the one option WithMaxDepth(D)
DepthLimited == Len(opts) = 1 /\ opts[1].o = "depth"

\* the levels of the source of the call
SrcLevels == ValLevels(heap0, heap0[srcI.a], SrcRootType, ViewDepth)

\* C3: under WithMaxDepth(D), D >= 1, mapping a structure nested to exactly
\* D levels (the root record is the first level; records, sequences, maps
\* and pointers make the further ones) succeeds, and mapping a structure
\* nested to D+1 levels fails with a MappingError (not a panic) whose Reason
\* is the depth-exhaustion reason.
C3_DepthBound ==
  pc = "done" /\ WellFormed /\ DepthLimited /\ ~SrcCyclic =>
    /\ SrcLevels = Config.maxDepth => err.kind = "nil"
    /\ SrcLevels = Config.maxDepth + 1 =>
         err.kind = "MappingError" /\ err.Reason = DepthReason

(***************************************************************************)
(* C4: termination.                                                        *)
(***************************************************************************)
\* the destination record declares the fields of the source record, so the
\* mapping follows the source wherever it leads
DstFollowsSrc == Exported(SrcRootType) \subseteq Exported(DstRootType)

MatchedAssignable ==
  \A N \in Exported(DstRootType) :
    \A f \in Resolved(SrcRootType, N, Config.tagName) :
      /\ FieldTypes(SrcRootType)[f] = FieldTypes(DstRootType)[N]
      /\ Field(SrcRootType, f).conv = ""

\* C5: in strict mode, when some exported field of the root destination
\* record resolves to no source field (and every matched pair is
\* assignable), the call fails with a MappingError whose Reason is "no
\* matching source field found" and whose FieldPath is the name of an
\* unmatched destination field.
C5_StrictRoot ==
  pc = "done" /\ WellFormed /\ Config.strictMode /\ Unmatched # {} /\ MatchedAssignable =>
    /\ err.kind = "MappingError"
    /\ err.Reason = "no matching source field found"
    /\ err.FieldPath \in Unmatched

\* a strict call with two unmatched destination fields has failed on one of them
C5_Witness ==
  /\ pc = "done"
  /\ WellFormed
  /\ Config.strictMode
  /\ MatchedAssignable
  /\ Unmatched = {"Email", "Age"}
  /\ err.kind = "MappingError"
  /\ err.FieldPath = "Age"

RECURSIVE UnmatchedKept(_, _, _, _)
\* every field of the destination record (type dT, value d1 after the call
\* and d0 before) that resolves to no field of the source type sT holds the
\* value it held before, in the record and in the records nested in it
UnmatchedKept(d1, d0, dT, sT) ==
  \A N \in Exported(dT) :
    IF Resolved(sT, N, Config.tagName) = {}
    THEN DeepVal(snap, d1[N], FieldTypes(dT)[N], ViewDepth)
           = DeepVal(heap0, d0[N], FieldTypes(dT)[N], ViewDepth)
    ELSE \A f \in Resolved(sT, N, Config.tagName) :
           Kind(FieldTypes(dT)[N]) = "struct" /\ Kind(FieldTypes(sT)[f]) = "struct" =>
             UnmatchedKept(d1[N], d0[N], FieldTypes(dT)[N], FieldTypes(sT)[f])

\* C6: with strict mode off, a destination field with no name or alias match
\* in the source never causes a failure (the call does not fail with the
\* no-match reason, nor with an error at that field), and after the call the
\* field holds exactly the value it held before.
C6_NonStrictKeeps ==
  pc = "done" /\ WellFormed /\ ~Config.strictMode =>
    /\ err.Reason # "no matching source field found"
    /\ \A N \in Unmatched : err.kind # "nil" => err.FieldPath # N
    /\ UnmatchedKept(snap[dstI.a], heap0[dstI.a], DstRootType, SrcRootType)

\* a non-strict call from a source with the one field Name has succeeded and
\* left Email and Age as they were
C6_Witness ==
  /\ pc = "done"
  /\ WellFormed
  /\ ~Config.strictMode
  /\ err.kind = "nil"
  /\ Unmatched = {"Email", "Age"}
  /\ heap0[srcI.a].Name = "Alicia"
  /\ heap0[dstI.a] = [Name |-> "Rafa", Email |-> "old@x.com", Age |-> 25]
  /\ snap[dstI.a] = [Name |-> "Alicia", Email |-> "old@x.com", Age |-> 25]

(***************************************************************************)
(* C7: skip-zero-source at the root.                                       *)
(***************************************************************************)
\* the source value of field f is the zero value of its type: 0, "", false,
\* a nil pointer, slice or map, a record of zero values
SrcZero(f) ==
  FieldView(heap0, srcI.a, SrcRootType, f) = ZeroTree(FieldTypes(SrcRootType)[f])

\* every matched root field is skipped or is assigned by a plain copy, and
\* no unmatched field fails the call
OnlyPlainOrZero ==
  /\ Config.strictMode => Unmatched = {}
  /\ \A N \in Exported(DstRootType) :
       \A f \in Resolved(SrcRootType, N, Config.tagName) :
         \/ SrcZero(f)
         \/ /\ SimplePair(FieldTypes(SrcRootType)[f], FieldTypes(DstRootType)[N])
            /\ Field(SrcRootType, f).conv = ""

\* C7: with skip-zero-source on, every matched root field whose source value
\* is the zero value of its type leaves the destination field at its prior
\* value and produces no error, a conversion directive on an empty string
\* included; a non-zero source value is assigned as usual.
C7_SkipZeroRoot ==
  pc = "done" /\ WellFormed /\ Config.ignoreZeroSource =>
    /\ \A N \in Exported(DstRootType) :
         \A f \in Resolved(SrcRootType, N, Config.tagName) :
           IF SrcZero(f)
           THEN /\ FieldView(snap, dstI.a, DstRootType, N) = FieldView(heap0, dstI.a, DstRootType, N)
                /\ err.kind # "nil" => err.FieldPath # N
           ELSE (/\ err.kind = "nil"
                 /\ SimplePair(FieldTypes(SrcRootType)[f], FieldTypes(DstRootType)[N])
                 /\ Field(SrcRootType, f).conv = "")
                  => snap[dstI.a][N] = heap0[srcI.a][f]
    /\ OnlyPlainOrZero => err.kind = "nil"

\* the patch of {Rafa, old@x.com, 25} with {Alicia, "", 0}
C7_Witness ==
  /\ pc = "done"
  /\ WellFormed
  /\ Config.ignoreZeroSource
  /\ err.kind = "nil"
  /\ heap0[dstI.a] = [Name |-> "Rafa", Email |-> "old@x.com", Age |-> 25]
  /\ heap0[srcI.a] = [Name |-> "Alicia", Email |-> "", Age |-> 0]
  /\ snap[dstI.a] = [Name |-> "Alicia", Email |-> "old@x.com", Age |-> 25]

(***************************************************************************)
(* C8: the root checks.                                                    *)
(***************************************************************************)
\* whether the i-th precondition of the root call is violated
RootViolated(i) ==
  CASE i = 1 -> dstI.isnil \/ srcI.isnil
    [] i = 2 -> dstI.isnil \/ Kind(dstI.t) # "ptr" \/ dstI.a = Nil
    [] i = 3 -> ~dstI.isnil /\ Kind(dstI.t) = "ptr" /\ Kind(dstI.t.e) # "struct"
    [] i = 4 -> ~srcI.isnil /\ Kind(srcI.t) = "ptr" /\ srcI.a = Nil
    [] i = 5 -> ~srcI.isnil /\ Kind(SrcRootType) # "struct"

RootReasons ==
  <<"nil src or dst", "dst must be a non-nil pointer to struct", "dst must point to a struct",
    "src is a nil pointer", "src must be a struct or pointer to struct">>

RootViolations == {i \in 1..5 : RootViolated(i)}

\* C8: a call whose arguments violate a root precondition returns the
\* MappingError of the earliest violated one in the order (1) nil interface,
\* (2) dst no non-nil pointer, (3) dst points to no struct, (4) src a nil
\* pointer, (5) src no struct; its FieldPath is empty and nothing is
\* modified.  A call that violates none returns none of these reasons.
C8_RootChecks ==
  pc = "done" =>
    IF RootViolations = {}
    THEN \A i \in 1..5 : err.Reason # RootReasons[i]
    ELSE /\ err.kind = "MappingError"
         /\ err.Reason = RootReasons[CHOOSE i \in RootViolations : \A j \in RootViolations : i <= j]
         /\ err.FieldPath = ""
         /\ snap = heap0

\* a call with a dst that is no pointer and a src that is a nil pointer has
\* reported the dst
C8_Witness ==
  /\ pc = "done"
  /\ RootViolations = {2, 4}
  /\ err.Reason = "dst must be a non-nil pointer to struct"
  /\ err.FieldPath = ""
  /\ snap = heap0

(***************************************************************************)
(* C9: which source field a destination field receives.                    *)
(***************************************************************************)
RECURSIVE ResolvedRight(_, _, _, _, _)
\* every exported field N of the destination record (type dT, value d1 after
\* the call and d0 before) holds what the resolution by name, then by alias,
\* gives it from the source record sv of type sT: the value of the one
\* source field N resolves to when the pair is assigned by a plain copy, its
\* prior value when N resolves to none; a pair of records is held to the
\* same, field by field
ResolvedRight(d1, d0, dT, sv, sT) ==
  \A N \in Exported(dT) :
    IF Resolved(sT, N, Config.tagName) = {}
    THEN DeepVal(snap, d1[N], FieldTypes(dT)[N], ViewDepth)
           = DeepVal(heap0, d0[N], FieldTypes(dT)[N], ViewDepth)
    ELSE \A f \in Resolved(sT, N, Config.tagName) :
           CASE SimplePair(FieldTypes(sT)[f], FieldTypes(dT)[N]) /\ Field(sT, f).conv = "" ->
                  d1[N] = sv[f]
             [] Kind(FieldTypes(sT)[f]) = "struct" /\ Kind(FieldTypes(dT)[N]) = "struct" ->
                  ResolvedRight(d1[N], d0[N], FieldTypes(dT)[N], sv[f], FieldTypes(sT)[f])
             [] OTHER -> TRUE

\* C9: for every exported destination field named N the source field used
\* is the one declared with the name N if there is one, otherwise the one
\* whose alias under the configured tag is N, otherwise none (the field
\* keeps its value); names are compared exactly, the destination's own tags
\* play no part, and the same holds in every nested record.
C9_Resolution ==
  pc = "done" /\ WellFormed /\ err.kind = "nil" /\ ~Config.ignoreZeroSource =>
    ResolvedRight(snap[dstI.a], heap0[dstI.a], DstRootType, heap0[srcI.a], SrcRootType)

\* a call under the default tag whose nested source record has a field Email
\* and another field with the alias Email, and a field with the alias Name:
\* the destination's Email is the first, its Name the aliased one; the
\* nested destination field Title, whose own tag names Name, kept its value
C9_Witness ==
  /\ pc = "done"
  /\ WellFormed
  /\ err.kind = "nil"
  /\ Config.tagName = "map"
  /\ SrcRootType = StructT("NestSrc")
  /\ heap0[srcI.a].U.Email = "a"
  /\ heap0[srcI.a].U.Contact = "b"
  /\ heap0[srcI.a].U.FullName = "b"
  /\ heap0[srcI.a].V.Name = "a"
  /\ heap0[dstI.a].T.Title = "old"
  /\ snap[dstI.a].U.Email = "a"
  /\ snap[dstI.a].U.Name = "b"
  /\ snap[dstI.a].T.Title = "old"

(***************************************************************************)
(* C10: the conversion of a string field that carries a directive.         *)
(***************************************************************************)
\* the kinds a directive may name
SupportedKinds == NumericKinds \cup {"bool"}

\* the text parsed as kind K
ParseAs(text, K) ==
  CASE K \in {"int", "int64"} -> ParseInt(text, 64)
    [] K \in {"int8", "int16", "int32"} -> ParseInt(text, Bits(K))
    [] K \in {"uint", "uint64"} -> ParseUint(text, 64)
    [] K \in {"uint8", "uint16", "uint32"} -> ParseUint(text, Bits(K))
    [] K \in FloatKinds -> ParseFloat(text)
    [] K = "bool" -> ParseBool(text)

\* the value d of a destination of type D is the value v parsed as kind K
HoldsParsed(d, D, v, K) ==
  CASE K \in IntegerKinds /\ Kind(D) \in IntegerKinds -> d = v
    [] K \in IntegerKinds /\ Kind(D) \in FloatKinds -> d = v * 10
    [] K \in FloatKinds /\ Kind(D) \in FloatKinds -> d = v
    [] K \in FloatKinds /\ Kind(D) \in IntegerKinds -> d * 10 = v
    [] K = "bool" /\ Kind(D) = "bool" -> d = v
    [] OTHER -> FALSE

\* what strconv says of a text it cannot parse
ParseMessages(text) ==
  {SyntaxErr(fn, text) : fn \in {"ParseInt", "ParseUint", "ParseFloat", "ParseBool"}}
    \cup {RangeErr(fn, text) : fn \in {"ParseInt", "ParseUint", "ParseFloat"}}

\* C10: a root source field of string kind with a directive K of the
\* supported set (and not skipped as a zero value) is converted: when its
\* text parses as K the call succeeds and the destination field holds the
\* parsed value; when it does not (the empty string included) the call fails
\* with a MappingError whose Reason is "cannot convert", the quoted text,
\* "to" and K, followed by the parser's message, whose FieldPath is the
\* field's name, and the destination field is unchanged.
C10_Conversion ==
  pc = "done" /\ WellFormed =>
    \A N \in Exported(DstRootType) :
      \A f \in Resolved(SrcRootType, N, Config.tagName) :
        (/\ Kind(FieldTypes(SrcRootType)[f]) = "string"
         /\ Field(SrcRootType, f).conv \in SupportedKinds
         /\ ~(Config.ignoreZeroSource /\ heap0[srcI.a][f] = ""))
        =>
        IF ParseAs(heap0[srcI.a][f], Field(SrcRootType, f).conv).ok
        THEN /\ err.kind = "nil"
             /\ HoldsParsed(snap[dstI.a][N], FieldTypes(DstRootType)[N],
                            ParseAs(heap0[srcI.a][f], Field(SrcRootType, f).conv).v,
                            Field(SrcRootType, f).conv)
        ELSE /\ err.kind = "MappingError"
             /\ \E msg \in ParseMessages(heap0[srcI.a][f]) :
                  err.Reason = "cannot convert \"" \o heap0[srcI.a][f] \o "\" to "
                                 \o Field(SrcRootType, f).conv \o ": " \o msg
             /\ err.FieldPath = N
             /\ snap[dstI.a][N] = heap0[dstI.a][N]


(***************************************************************************)
(* C11: the path of a failure.                                             *)
(***************************************************************************)
\* a path extended by a field name: segments are joined by single dots
Dot(p, N) == IF p = "" THEN N ELSE p \o "." \o N

RECURSIVE Routes(_, _, _, _, _, _, _)
\* the locations the mapping of the source value v (of type S, in heap h)
\* into a destination of type D can reach, each with its route p from the
\* root written as the claim writes it: destination field names joined by
\* dots, "[i]" for a sequence index, "[key]" for a map key, and nothing for
\* the step through a pointer; conv is the directive in force at the location
\* and S is [k |-> "none"] at a destination field that resolves to nothing
Routes(h, v, S, D, p, conv, fuel) ==
  {[p |-> p, S |-> S, D |-> D, conv |-> conv]} \cup
  (IF fuel = 0 THEN {}
   ELSE IF Kind(S) = "ptr" THEN
     IF v = Nil THEN {}
     ELSE Routes(h, h[v], S.e, IF Kind(D) = "ptr" THEN D.e ELSE D, p, conv, fuel - 1)
   ELSE IF Kind(D) = "ptr" /\ Kind(S) # "none" THEN Routes(h, v, S, D.e, p, conv, fuel - 1)
   ELSE IF Kind(S) = "struct" /\ Kind(D) = "struct" THEN
     UNION {IF Resolved(S, N, Config.tagName) = {}
            THEN {[p |-> Dot(p, N), S |-> [k |-> "none"], D |-> FieldTypes(D)[N], conv |-> ""]}
            ELSE UNION {Routes(h, v[f], FieldTypes(S)[f], FieldTypes(D)[N], Dot(p, N),
                               Field(S, f).conv, fuel - 1) :
                        f \in Resolved(S, N, Config.tagName)} :
            N \in Exported(D)}
   ELSE IF Kind(S) = "slice" /\ Kind(D) = "slice" /\ v # Nil THEN
     UNION {Routes(h, h[v][i], S.e, D.e, p \o "[" \o ToString(i - 1) \o "]", "", fuel - 1) :
            i \in 1..Len(h[v])}
   ELSE IF Kind(S) = "map" /\ Kind(D) = "map" /\ v # Nil THEN
     UNION {Routes(h, h[v][k], S.e, D.e, p \o "[" \o formatMapKey(k, S.key) \o "]", "",
                   fuel - 1) : k \in DOMAIN h[v]}
   ELSE {})

\* the locations below the root of the call
RootRoutes ==
  Routes(heap0, heap0[srcI.a], SrcRootType, DstRootType, "", "", ViewDepth) \
    {[p |-> "", S |-> SrcRootType, D |-> DstRootType, conv |-> ""]}

\* the failure with the given reason can have been detected at location r
Offends(r, reason) ==
  \/ reason \in {DepthReason, CannotSetReason} /\ Kind(r.S) # "none"
  \/ reason = NoMatchReason /\ Kind(r.S) = "none"
  \/ Kind(r.S) = "string" /\ r.conv # ""
  \/ /\ Kind(r.S) # "none"
     /\ \/ reason = Incompatible("incompatible field types: ", r.S, r.D)
        \/ /\ Kind(r.S) = "slice" /\ Kind(r.D) = "slice"
           /\ reason = Incompatible("slice element types are incompatible: ", r.S.e, r.D.e)
        \/ /\ Kind(r.S) = "map" /\ Kind(r.D) = "map"
           /\ reason \in {Incompatible("map key types are incompatible: ", r.S.key, r.D.key),
                          Incompatible("map value types are incompatible: ", r.S.e, r.D.e)}
        \/ /\ Kind(r.S) = "ptr" /\ Kind(r.D) = "ptr"
           /\ reason = Incompatible("incompatible pointer element types: ", r.S.e, r.D.e)

\* C11: the FieldPath of every MappingError returned for a failure at a
\* field, element or entry is exactly the route from the root to the
\* offending location: destination field names joined by single dots, "[i]"
\* for a sequence index, "[key]" for a map key, with no empty segment, no
\* doubled dot and no leading or trailing dot, also through pointer fields of
\* nested records.
C11_ErrorPath ==
  (pc = "done" /\ WellFormed /\ err.kind = "MappingError") =>
    \E r \in RootRoutes : r.p = err.FieldPath /\ Offends(r, err.Reason)


(***************************************************************************)
(* C12: no panic.                                                          *)
(***************************************************************************)
\* C12: every call of Map / MapWithOptions, whatever the source, the
\* destination and the configuration, returns nil or a MappingError and
\* never panics, also when a string field's mapconv directive names a kind
\* that cannot be converted to the destination field's type.
C12_NoPanic == pc \in {"done", "mutated"} => err.kind \in {"nil", "MappingError"}


(***************************************************************************)
(* C13: the metadata cache under concurrent calls.                         *)
(***************************************************************************)
\* a call of goroutine g has returned a table
ReturnedMeta(g) == gor[g].at = "returned" /\ gor[g].e.kind = "nil"

\* what every returned and every cached pointer refers to: the table fully
\* built for its own key, and a call returns the pointer cached under its key
CacheComplete ==
  /\ \A key \in DOMAIN smap :
       \E t \in MetaTypes, tagName \in MetaTags :
         key = cacheKey(t, tagName) /\ heap[smap[key]] = buildStructMeta(t, tagName)
  /\ \A g \in DOMAIN gor :
       ReturnedMeta(g) =>
         /\ gor[g].ret # Nil
         /\ heap[gor[g].ret] = buildStructMeta(gor[g].t, gor[g].tagName)
         /\ cacheKey(gor[g].t, gor[g].tagName) \in DOMAIN smap
         /\ gor[g].ret = smap[cacheKey(gor[g].t, gor[g].tagName)]

\* a key that is present stays, with the pointer it has
FirstWriterWins ==
  \A key \in DOMAIN smap : key \in DOMAIN smap' /\ smap'[key] = smap[key]

\* C13: for goroutines that call getStructMeta concurrently, every call
\* returns a fully built structMeta; once a value is inserted for a key it is
\* never replaced and every call that returns afterwards returns that same
\* value (a table computed by a goroutine that lost the race is discarded);
\* entries for different tag names of one type never overwrite each other.
C13_CacheMemo == [](pc = "goroutines" => CacheComplete) /\ [][FirstWriterWins]_vars

\* two goroutines have built a table for the same key, one has stored its
\* own, and the other has returned the pointer of the first and not its own
C13_Witness ==
  /\ pc = "goroutines"
  /\ \E g, f \in DOMAIN gor :
       /\ g # f
       /\ ReturnedMeta(g)
       /\ gor[g].m # Nil
       /\ gor[g].ret # gor[g].m
       /\ gor[f].m = gor[g].ret
  /\ \E k1, k2 \in DOMAIN smap : k1 # k2 /\ k1[1] = k2[1]


(***************************************************************************)
(* C14: the options of a call.                                             *)
(***************************************************************************)
\* the positions of os that hold an option of kind o
OptsAt(os, o) == {i \in 1..Len(os) : os[i].o = o}

\* the last of a non-empty set of positions
Last(S) == CHOOSE i \in S : \A j \in S : j <= i

\* the configuration of a call given os when a non-positive WithMaxDepth is
\* ignored: the depth limit is that of the last positive WithMaxDepth, 64
\* when there is none; the tag name is that of the last WithTagName, "map"
\* when there is none; a flag is on when its option occurs
IgnoringConfig(os) ==
  [tagName |-> IF OptsAt(os, "tag") = {} THEN "map" ELSE os[Last(OptsAt(os, "tag"))].s,
   ignoreZeroSource |-> OptsAt(os, "zero") # {},
   strictMode |-> OptsAt(os, "strict") # {},
   maxDepth |-> IF {i \in OptsAt(os, "depth") : os[i].d > 0} = {} THEN 64
                ELSE os[Last({i \in OptsAt(os, "depth") : os[i].d > 0})].d]

\* the configuration when a non-positive WithMaxDepth puts the default limit
\* in force, whatever preceded it
ResettingConfig(os) ==
  [IgnoringConfig(os) EXCEPT
     !.maxDepth = IF OptsAt(os, "depth") = {} \/ os[Last(OptsAt(os, "depth"))].d <= 0 THEN 64
                  ELSE os[Last(OptsAt(os, "depth"))].d]

\* the call returned what a mapping under configuration c returns: the same
\* error and the same heap, for some order of iteration
RanUnder(c) ==
  \E rot \in Rots :
    \E r \in {runMapping([h |-> heap0, c |-> <<>>], dstI, srcI, c, rot)} :
      r.e = err /\ r.m.h = snap

RECURSIVE OptionalKept(_, _, _, _, _, _)
\* in the destination record (d1 after the call, d0 before it, type dT)
\* mapped from the source record s (type sT) at path p, every plain field
\* matched with a nil pointer holds what it held before and is not where
\* the call failed; so too in the records nested in it through record
\* fields and, when the call succeeded, through pointers (which the call
\* allocates, so that the field held the zero value before)
OptionalKept(d1, d0, dT, s, sT, p) ==
  \A N \in Exported(dT) :
    \A f \in Resolved(sT, N, Config.tagName) :
      LET S == FieldTypes(sT)[f]
          D == FieldTypes(dT)[N]
      IN  CASE Kind(S) = "ptr" /\ Kind(D) # "ptr" /\ s[f] = <<>> ->
                 /\ d1[N] = d0[N]
                 /\ err.kind # "nil" => err.FieldPath # Dot(p, N)
            [] Kind(S) = "struct" /\ Kind(D) = "struct" ->
                 OptionalKept(d1[N], d0[N], D, s[f], S, Dot(p, N))
            [] /\ Kind(S) = "ptr" /\ Kind(D) = "ptr"
               /\ Kind(S.e) = "struct" /\ Kind(D.e) = "struct"
               /\ s[f] # <<>> /\ d1[N] # <<>> /\ err.kind = "nil" ->
                 OptionalKept(d1[N][1], ZeroTree(D.e), D.e, s[f][1], S.e, Dot(p, N))
            [] OTHER -> TRUE

\* C15: after a Map call, a plain destination field whose matched source
\* field is a nil pointer holds exactly the value it held before the call and
\* is not the place of a failure, at the root and in nested records.
C15_NilOptionalKept ==
  pc = "done" /\ WellFormed /\ Kind(SrcRootType) = "struct" /\ Kind(DstRootType) = "struct" =>
    OptionalKept(DeepVal(snap, snap[dstI.a], DstRootType, ViewDepth),
                 DeepVal(heap0, heap0[dstI.a], DstRootType, ViewDepth), DstRootType,
                 DeepVal(heap0, heap0[srcI.a], SrcRootType, ViewDepth), SrcRootType, "")

\* a successful call into a populated destination where the root's Name and
\* the nested record's Name come from nil pointers and stay "old", while the
\* nested Value comes from a pointer to 1
C15_Witness ==
  /\ pc = "done"
  /\ WellFormed
  /\ opts = <<>>
  /\ err.kind = "nil"
  /\ SrcRootType = StructT("OptSrc")
  /\ heap0[srcI.a].Name = Nil
  /\ heap0[srcI.a].In.Name = Nil
  /\ heap0[srcI.a].In.Value # Nil
  /\ heap0[dstI.a].Name = "old"
  /\ snap[dstI.a].Name = "old"
  /\ snap[dstI.a].In.Name = "old"
  /\ snap[dstI.a].In.Value = 1


(***************************************************************************)
(* C16: the key and value types of a map are checked before any entry is   *)
(* copied.                                                                 *)
(***************************************************************************)
\* the Reason the call must give for the source map type S and the
\* destination map type D: the keys first, then the values ("" when the
\* types are compatible)
MapReason(S, D) ==
  CASE ~AssignableTo(S.key, D.key) /\ ~ConvertibleTo(S.key, D.key) ->
         "map key types are incompatible: " \o TypeString(S.key) \o " -> " \o TypeString(D.key)
    [] /\ ~AssignableTo(S.e, D.e) /\ ~ConvertibleTo(S.e, D.e)
       /\ \A k \in {"struct", "slice", "map", "ptr"} : ~(Kind(S.e) = k /\ Kind(D.e) = k) ->
         "map value types are incompatible: " \o TypeString(S.e) \o " -> " \o TypeString(D.e)
    [] OTHER -> ""

RECURSIVE MapsChecked(_, _, _, _, _, _)
\* in the destination record (d1 after the call, d0 before it, type dT)
\* mapped from the source record s (type sT) at path p, every map field
\* matched with a non-nil map of an incompatible type is unchanged, the call
\* has failed, and a failure at the field's path has the Reason of the
\* incompatibility; so too in the records nested through record fields
MapsChecked(d1, d0, dT, s, sT, p) ==
  \A N \in Exported(dT) :
    \A f \in Resolved(sT, N, Config.tagName) :
      LET S == FieldTypes(sT)[f]
          D == FieldTypes(dT)[N]
      IN  CASE Kind(S) = "map" /\ Kind(D) = "map" ->
                 ~s[f].nil /\ MapReason(S, D) # "" =>
                   /\ d1[N] = d0[N]
                   /\ err.kind = "MappingError"
                   /\ err.FieldPath = Dot(p, N) => err.Reason = MapReason(S, D)
            [] Kind(S) = "struct" /\ Kind(D) = "struct" ->
                 MapsChecked(d1[N], d0[N], D, s[f], S, Dot(p, N))
            [] OTHER -> TRUE

\* the destination fields of record type dT in the order of the loop, up to
\* the first map field of an incompatible type: whether that field is
\* where the call must fail (no earlier field can fail: each is of a
\* numeric type matched with a numeric type)
FirstFailure(dT, sT) ==
  LET bad == {N \in Exported(dT) :
                \E f \in Resolved(sT, N, Config.tagName) :
                  /\ Kind(FieldTypes(sT)[f]) = "map" /\ Kind(FieldTypes(dT)[N]) = "map"
                  /\ MapReason(FieldTypes(sT)[f], FieldTypes(dT)[N]) # ""}
  IN  IF Cardinality(bad) = 1
         /\ \A N \in Exported(dT) \ bad :
              /\ Kind(FieldTypes(dT)[N]) \in NumericKinds
              /\ \A f \in Resolved(sT, N, Config.tagName) : Kind(FieldTypes(sT)[f]) \in NumericKinds
      THEN bad ELSE {}

RECURSIVE NestedUnmatched(_, _, _, _)
\* the paths of the fields with no name or alias match in the records nested,
\* through record fields, in the destination record of type dT mapped from
\* the record type sT at path p (top: the record is the root, whose own
\* unmatched fields are not counted)
NestedUnmatched(dT, sT, p, top) ==
  UNION {IF Resolved(sT, N, Config.tagName) = {}
         THEN IF top THEN {} ELSE {Dot(p, N)}
         ELSE UNION {IF Kind(FieldTypes(dT)[N]) = "struct" /\ Kind(FieldTypes(sT)[f]) = "struct"
                     THEN NestedUnmatched(FieldTypes(dT)[N], FieldTypes(sT)[f], Dot(p, N), FALSE)
                     ELSE {} : f \in Resolved(sT, N, Config.tagName)} :
         N \in Exported(dT)}

\* C17: with strict mode on (and neither skip-zero nor a depth limit), when
\* every root field matches and a record nested through record fields has a
\* destination field with no match, the call fails with "no matching source
\* field found" at the path of such a nested field.
C17_StrictNested ==
  pc = "done" /\ WellFormed /\ Kind(SrcRootType) = "struct"
  /\ Config.strictMode /\ ~Config.ignoreZeroSource /\ Config.maxDepth = DefaultMaxDepth
  /\ Unmatched = {}
  /\ NestedUnmatched(DstRootType, SrcRootType, "", TRUE) # {} =>
    /\ err.kind = "MappingError"
    /\ err.Reason = NoMatchReason
    /\ err.FieldPath \in NestedUnmatched(DstRootType, SrcRootType, "", TRUE)


(***************************************************************************)
(* C18: skip-zero-source in the records nested in the root.                *)
(***************************************************************************)
RECURSIVE ZeroSkipped(_, _, _, _, _)
\* in the nested destination record (d1 after the call, d0 before it, type
\* dT) mapped from the source record s (type sT), every matched field whose
\* source value is the zero value of its type holds what it held before; so
\* too in the records nested in it through record fields
ZeroSkipped(d1, d0, dT, s, sT) ==
  \A N \in Exported(dT) :
    \A f \in Resolved(sT, N, Config.tagName) :
      LET S == FieldTypes(sT)[f]
          D == FieldTypes(dT)[N]
      IN  /\ s[f] = ZeroTree(S) => d1[N] = d0[N]
          /\ Kind(S) = "struct" /\ Kind(D) = "struct" => ZeroSkipped(d1[N], d0[N], D, s[f], S)

\* C18: with skip-zero-source on, after a Map call every matched field of a
\* record nested in the root through record fields whose source value is the
\* zero value of its type holds the value it held before the call.
C18_SkipZeroNested ==
  pc = "done" /\ WellFormed /\ Kind(SrcRootType) = "struct" /\ Config.ignoreZeroSource =>
    \A N \in Exported(DstRootType) :
      \A f \in Resolved(SrcRootType, N, Config.tagName) :
        Kind(FieldTypes(SrcRootType)[f]) = "struct" /\ Kind(FieldTypes(DstRootType)[N]) = "struct" =>
          ZeroSkipped(FieldView(snap, dstI.a, DstRootType, N),
                      FieldView(heap0, dstI.a, DstRootType, N), FieldTypes(DstRootType)[N],
                      FieldView(heap0, srcI.a, SrcRootType, f), FieldTypes(SrcRootType)[f])


(***************************************************************************)
(* C19: the whole-value copy of a nested record of the identical type.     *)
(***************************************************************************)
\* the outcome of the per-field loop of assignStruct for the root field N
\* (matched with the source field f, both of record type T), run on the
\* state before the call with the iteration order rot
PerField(N, f, T, rot) ==
  LET meta == buildStructMeta(T, Config.tagName)
      ctx == [st |-> SrcRootType, dt |-> DstRootType, tag |-> Config.tagName, rot |-> rot]
  IN  assignStructFields(Ok([h |-> heap0, c |-> <<>>]), Sub(At(dstI.a), N), Sub(At(srcI.a), f),
                         T, T, meta, meta, FieldOrder(T, rot), ctx, N, Config.maxDepth - 1)

\* the root fields assigned by the whole-value copy: a record field matched
\* with a field of the identical record type whose table reports no
\* composite field
FastFields ==
  {N \in Exported(DstRootType) :
     /\ Kind(FieldTypes(DstRootType)[N]) = "struct"
     /\ ~buildStructMeta(FieldTypes(DstRootType)[N], Config.tagName).HasComposite
     /\ \E f \in Resolved(SrcRootType, N, Config.tagName) :
          FieldTypes(SrcRootType)[f] = FieldTypes(DstRootType)[N]}

\* C19: after a successful Map call (default depth limit, skip-zero off), a
\* nested destination record assigned by the whole-value copy is in exactly
\* the state the per-field loop would have left it in, and that loop would
\* not have failed: for plain fields, unexported fields and string fields
\* with a mapconv directive alike.
C19_FastPathEquivalent ==
  pc = "done" /\ WellFormed /\ Kind(SrcRootType) = "struct" /\ err.kind = "nil"
  /\ ~Config.ignoreZeroSource /\ Config.maxDepth = DefaultMaxDepth =>
    \A N \in FastFields :
      \A f \in Resolved(SrcRootType, N, Config.tagName) :
        \A rot \in Rots :
          \E g \in {PerField(N, f, FieldTypes(DstRootType)[N], rot)} :
            /\ g.e.kind = "nil"
            /\ DeepVal(g.m.h, g.m.h[dstI.a][N], FieldTypes(DstRootType)[N], ViewDepth)
                 = FieldView(snap, dstI.a, DstRootType, N)


(***************************************************************************)
(* C20: a failure ends the call and nothing is rolled back.                *)
(***************************************************************************)
RECURSIVE PlainTree(_, _)
\* the record types dT and sT pair only plain fields without a mapconv
\* directive, and records of such fields; every field of dT is exported
PlainTree(dT, sT) ==
  /\ \A i \in 1..Len(StructFields(dT)) : StructFields(dT)[i].x
  /\ \A N \in Exported(dT) :
       \A f \in Resolved(sT, N, Config.tagName) :
         /\ Field(sT, f).conv = ""
         /\ \/ ~IsCompositeKind(Kind(FieldTypes(sT)[f])) /\ ~IsCompositeKind(Kind(FieldTypes(dT)[N]))
            \/ /\ Kind(FieldTypes(sT)[f]) = "struct" /\ Kind(FieldTypes(dT)[N]) = "struct"
               /\ PlainTree(FieldTypes(dT)[N], FieldTypes(sT)[f])

RECURSIVE CanFail(_, _)
\* some field of the record types dT and sT, or of the records nested in
\* them, pairs types that are neither assignable nor convertible
CanFail(dT, sT) ==
  \E N \in Exported(dT) :
    \E f \in Resolved(sT, N, Config.tagName) :
      IF Kind(FieldTypes(dT)[N]) = "struct"
      THEN CanFail(FieldTypes(dT)[N], FieldTypes(sT)[f])
      ELSE ~ConvertibleTo(FieldTypes(sT)[f], FieldTypes(dT)[N])

RECURSIVE Assigned(_, _, _, _, _, _)
\* the field N of the destination record (d1 after the call, d0 before it,
\* type dT) holds the value assigned from the source record s (type sT): the
\* converted source value (of a convertible type), for a nested record the
\* record of its assigned fields, and for an unmatched field what it held
\* before
Assigned(d1, d0, dT, s, sT, N) ==
  IF Resolved(sT, N, Config.tagName) = {} THEN d1[N] = d0[N]
  ELSE \A f \in Resolved(sT, N, Config.tagName) :
         IF Kind(FieldTypes(dT)[N]) = "struct"
         THEN \A M \in Exported(FieldTypes(dT)[N]) :
                Assigned(d1[N], d0[N], FieldTypes(dT)[N], s[f], FieldTypes(sT)[f], M)
         ELSE /\ ConvertibleTo(FieldTypes(sT)[f], FieldTypes(dT)[N])
              /\ d1[N] = Convert(s[f], FieldTypes(sT)[f], FieldTypes(dT)[N])

RECURSIVE StoppedAt(_, _, _, _, _, _, _, _)
\* the loop over the fields of the destination record, in the order names,
\* stopped at the k-th name: the fields before it are assigned, the fields
\* after it hold what they held before, and the k-th is where the call
\* failed: it holds what it held before and the error names its path, or it
\* is a nested record whose own loop stopped at one of its fields
StoppedAt(d1, d0, dT, s, sT, p, names, k) ==
  /\ \A i \in 1..(k - 1) : Assigned(d1, d0, dT, s, sT, names[i])
  /\ \A i \in (k + 1)..Len(names) : d1[names[i]] = d0[names[i]]
  /\ \/ err.FieldPath = Dot(p, names[k]) /\ d1[names[k]] = d0[names[k]]
     \/ \E f \in Resolved(sT, names[k], Config.tagName) :
          /\ Kind(FieldTypes(dT)[names[k]]) = "struct"
          /\ \E rot \in Rots :
               \E j \in 1..Len(FieldOrder(FieldTypes(dT)[names[k]], rot)) :
                 StoppedAt(d1[names[k]], d0[names[k]], FieldTypes(dT)[names[k]], s[f],
                           FieldTypes(sT)[f], Dot(p, names[k]),
                           FieldOrder(FieldTypes(dT)[names[k]], rot), j)

\* C20: for records of plain fields (default depth limit, skip-zero off),
\* when some field cannot be assigned the call fails with one error, and
\* there is an order of the fields in which every field before the failing
\* one holds its newly assigned value, and the failing field and every field
\* after it hold their prior values; so too inside the nested record the
\* failure lies in.
C20_NoRollback ==
  pc = "done" /\ WellFormed /\ Kind(SrcRootType) = "struct"
  /\ ~Config.ignoreZeroSource /\ Config.maxDepth = DefaultMaxDepth
  /\ PlainTree(DstRootType, SrcRootType) =>
    /\ CanFail(DstRootType, SrcRootType) => err.kind = "MappingError"
    /\ err.kind = "MappingError" =>
         \E rot \in Rots :
           \E k \in 1..Len(FieldOrder(DstRootType, rot)) :
             StoppedAt(snap[dstI.a], heap0[dstI.a], DstRootType, heap0[srcI.a], SrcRootType, "",
                       FieldOrder(DstRootType, rot), k)

\* a failed call into a populated record: A was assigned 1 before the
\* failure at B, and B and C hold what they held before
C20_Witness ==
  /\ pc = "done"
  /\ WellFormed
  /\ opts = <<>>
  /\ DstRootType = StructT("RollInD")
  /\ err.kind = "MappingError"
  /\ err.FieldPath = "B"
  /\ heap0[dstI.a] = [A |-> 9, B |-> 9, C |-> "old"]
  /\ snap[dstI.a] = [A |-> 1, B |-> 9, C |-> "old"]


(***************************************************************************)
(* C21: the element types of a sequence are checked before the loop.       *)
(***************************************************************************)
\* the Reason the call must give for the source slice type S and the
\* destination slice type D ("" when the element types are compatible)
SliceReason(S, D) ==
  IF /\ ~AssignableTo(S.e, D.e) /\ ~ConvertibleTo(S.e, D.e)
     /\ \A k \in {"struct", "slice", "map", "ptr"} : ~(Kind(S.e) = k /\ Kind(D.e) = k)
  THEN "slice element types are incompatible: " \o TypeString(S.e) \o " -> " \o TypeString(D.e)
  ELSE ""

RECURSIVE SlicesChecked(_, _, _, _, _, _, _)
\* in the destination record (d1 after the call, d0 before it, type dT)
\* mapped from the source record s (type sT) at path p: a slice field
\* matched with a non-nil slice (empty or not) of an incompatible element
\* type is unchanged, the call has failed, and a failure at the field's path
\* has the Reason of the incompatibility; a slice field matched with a nil
\* slice is nil after a successful call (unless the root skipped it as a
\* zero source: skip); so too in the records nested through record fields
SlicesChecked(d1, d0, dT, s, sT, p, skip) ==
  \A N \in Exported(dT) :
    \A f \in Resolved(sT, N, Config.tagName) :
      LET S == FieldTypes(sT)[f]
          D == FieldTypes(dT)[N]
      IN  CASE Kind(S) = "slice" /\ Kind(D) = "slice" ->
                 /\ ~s[f].nil /\ SliceReason(S, D) # "" =>
                      /\ d1[N] = d0[N]
                      /\ err.kind = "MappingError"
                      /\ err.FieldPath = Dot(p, N) => err.Reason = SliceReason(S, D)
                 /\ s[f].nil /\ err.kind = "nil" /\ ~skip => d1[N] = NilColl
            [] Kind(S) = "struct" /\ Kind(D) = "struct" ->
                 SlicesChecked(d1[N], d0[N], D, s[f], S, Dot(p, N),
                               Config.ignoreZeroSource /\ s[f] = ZeroTree(S))
            [] OTHER -> TRUE

\* the one slice field of the root record of an incompatible element type,
\* when every other root field pairs numeric types (which cannot fail)
FirstSliceFailure ==
  LET bad == {N \in Exported(DstRootType) :
                \E f \in Resolved(SrcRootType, N, Config.tagName) :
                  /\ Kind(FieldTypes(SrcRootType)[f]) = "slice"
                  /\ Kind(FieldTypes(DstRootType)[N]) = "slice"
                  /\ SliceReason(FieldTypes(SrcRootType)[f], FieldTypes(DstRootType)[N]) # ""}
  IN  IF Cardinality(bad) = 1
         /\ \A N \in Exported(DstRootType) \ bad :
              /\ Kind(FieldTypes(DstRootType)[N]) \in NumericKinds
              /\ \A f \in Resolved(SrcRootType, N, Config.tagName) :
                   Kind(FieldTypes(SrcRootType)[f]) \in NumericKinds
      THEN bad ELSE {}

PointerFields ==
  {N \in Exported(DstRootType) :
     /\ Kind(FieldTypes(DstRootType)[N]) = "ptr"
     /\ \E f \in Resolved(SrcRootType, N, Config.tagName) :
          Kind(FieldTypes(SrcRootType)[f]) = "ptr" /\ Field(SrcRootType, f).conv = ""}

\* the holder at address a (of type D) holds what the assignment of the
\* pointee at address b (of type S) gives: the converted value of a plain
\* pointee; for a pointee that is a record of plain fields, the fields
\* assigned over a zero record
HoldsAssigned(a, D, b, S) ==
  IF Kind(D) = "struct" /\ Kind(S) = "struct"
  THEN PlainTree(D, S) =>
         \A M \in Exported(D) : Assigned(snap[a], ZeroTree(D), D, heap0[b], S, M)
  ELSE IF IsCompositeKind(Kind(D)) \/ IsCompositeKind(Kind(S)) THEN TRUE
  ELSE ConvertibleTo(S, D) /\ snap[a] = Convert(heap0[b], S, D)

Holds(l, g) == g \in l.r \/ l.w = g

\* the tagCache locks goroutine g holds
TagLocksHeld(g) == {k \in DOMAIN rw.typeCache : Holds(rw.typeCache[k].lock, g)}

\* no goroutine holds typeCacheLock together with a tagCache lock, or two
\* tagCache locks; a goroutine holds a lock only between acquiring it and
\* the next statement that releases it, so none while it builds a table and
\* none once getStructMeta has returned (when the engine goes on into the
\* values it maps)
LockDiscipline ==
  \A g \in 1..NumG :
    /\ ~(Holds(rw.typeCacheLock, g) /\ TagLocksHeld(g) # {})
    /\ Cardinality(TagLocksHeld(g)) <= 1
    /\ Holds(rw.typeCacheLock, g) <=> gor[g].at \in {"typeRead", "typeStore"}
    /\ TagLocksHeld(g) # {} <=> gor[g].at \in {"tagRead", "tagStore"}

\* some goroutine can take a step, unless all have returned from all the
\* calls there are to make
NoDeadlock ==
  \/ \E g \in 1..NumG :
       \/ gor[g].at \in {"typeRead", "tagRead", "build", "typeLock", "typeStore", "tagLock",
                         "tagStore", "returned"}
       \/ gor[g].at = "typeRLock" /\ CanRLock(rw.typeCacheLock)
       \/ gor[g].at = "tagRLock" /\ CanRLock(Tc(g).lock)
       \/ gor[g].at = "typeLockWait" /\ CanLock(rw.typeCacheLock, g)
       \/ gor[g].at = "tagLockWait" /\ CanLock(Tc(g).lock, g)
       \/ gor[g].at = "idle" /\ CallsMade(gor, NumG) < RWCalls
  \/ \A g \in 1..NumG : gor[g].at = "idle"

\* C23: in the RWMutex-based cache no goroutine ever holds typeCacheLock and a
\* tagCache lock at once, none holds a lock while buildStructMeta runs or
\* after getStructMeta returned, no interleaving of concurrent calls (same or
\* different keys) reaches a deadlock, and every call returns in the end.
C23_LockDiscipline ==
  /\ [](LockDiscipline /\ NoDeadlock)
  /\ \A g \in 1..NumG : gor[g].at # "idle" ~> gor[g].at = "idle"

\* two goroutines have each built the table of the same key; one holds the
\* tagCache lock as the writer and the other waits in Lock for it
C23_Witness ==
  /\ pc = "locks"
  /\ \E g, f \in 1..NumG :
       /\ g # f
       /\ gor[g].t = gor[f].t
       /\ gor[g].tagName = gor[f].tagName
       /\ gor[g].at = "tagStore"
       /\ gor[f].at = "tagLockWait"
       /\ gor[f].m # Nil
       /\ Tc(g).lock.w = g
       /\ f \in Tc(g).lock.q


(***************************************************************************)
(* C24: what a failure carries up through the frames.                      *)
(***************************************************************************)
\* the call maps a record nested through the composites ks whose field Name
\* (string -> int) cannot be assigned
LeafFails(ks) ==
  /\ SrcRootType = WrapT(ChainType(ks, StructT("LeafS")))
  /\ DstRootType = WrapT(ChainType(ks, StructT("LeafD")))

\* a frame that prepends an index or a map key to the failure e changes its
\* FieldPath and nothing else, and writes nothing
FramesKeep(e) ==
  \A base \in {"", "F"} :
    \A q \in {prependIndexPath(Fail([h |-> snap, c |-> cache], e), base, 1),
              prependMapKeyPath(Fail([h |-> snap, c |-> cache], e), base, "k", TString)} :
      /\ q.m = [h |-> snap, c |-> cache]
      /\ q.e = [e EXCEPT !.FieldPath = q.e.FieldPath]
      /\ q.e.FieldPath # e.FieldPath

\* C24: a MappingError returned for a failure at any nesting depth carries
\* the names of the root source and root destination record types and the
\* Reason given where the failure was detected (for a record field string ->
\* int below records, sequences, maps and pointers: "incompatible field
\* types: string -> int"); a frame that adds an index or map-key segment
\* changes only FieldPath.
C24_ErrorIdentity ==
  pc = "done" /\ WellFormed =>
    /\ err.kind = "MappingError" =>
         /\ err.SrcType = TypeString(SrcRootType)
         /\ err.DstType = TypeString(DstRootType)
         /\ FramesKeep(err)
    /\ \A ks \in Chains :
         LeafFails(ks) /\ Config.maxDepth = DefaultMaxDepth =>
           /\ err.kind = "MappingError"
           /\ err.Reason = "incompatible field types: string -> int"

\* a failure three composites below the root (in a record in a map in a
\* sequence) names the root types Wrap[...] and the leaf's Reason
C24_Witness ==
  /\ pc = "done"
  /\ WellFormed
  /\ LeafFails(<<"slice", "map", "struct">>)
  /\ err.kind = "MappingError"
  /\ err.SrcType = TypeString(SrcRootType)
  /\ err.Reason = "incompatible field types: string -> int"
  /\ err.FieldPath # "F"

(***************************************************************************)
(* C25: the range check of the integer directives.                         *)
(***************************************************************************)
\* the integer a decimal text (an optional minus sign and digits) denotes,
\* written as its sign and its size 2^p + off with 0 <= off < 2^p (p = -1
\* for zero), so that integers of 64 bits and more can be compared
Denoted ==
  [s \in {"0", "42", "-1", "127", "128", "-128", "-129", "255", "256", "32767", "32768",
          "-32768", "-32769", "65535", "65536", "2147483646", "2147483648", "-2147483649",
          "4294967296", "9223372036854775808", "-9223372036854775809",
          "18446744073709551616"} |->
     CASE s = "0" -> [neg |-> FALSE, p |-> -1, off |-> 0]
       [] s = "42" -> [neg |-> FALSE, p |-> 5, off |-> 10]
       [] s = "-1" -> [neg |-> TRUE, p |-> 0, off |-> 0]
       [] s = "127" -> [neg |-> FALSE, p |-> 6, off |-> 63]
       [] s = "128" -> [neg |-> FALSE, p |-> 7, off |-> 0]
       [] s = "-128" -> [neg |-> TRUE, p |-> 7, off |-> 0]
       [] s = "-129" -> [neg |-> TRUE, p |-> 7, off |-> 1]
       [] s = "255" -> [neg |-> FALSE, p |-> 7, off |-> 127]
       [] s = "256" -> [neg |-> FALSE, p |-> 8, off |-> 0]
       [] s = "32767" -> [neg |-> FALSE, p |-> 14, off |-> 16383]
       [] s = "32768" -> [neg |-> FALSE, p |-> 15, off |-> 0]
       [] s = "-32768" -> [neg |-> TRUE, p |-> 15, off |-> 0]
       [] s = "-32769" -> [neg |-> TRUE, p |-> 15, off |-> 1]
       [] s = "65535" -> [neg |-> FALSE, p |-> 15, off |-> 32767]
       [] s = "65536" -> [neg |-> FALSE, p |-> 16, off |-> 0]
       [] s = "2147483646" -> [neg |-> FALSE, p |-> 30, off |-> 1073741822]
       [] s = "2147483648" -> [neg |-> FALSE, p |-> 31, off |-> 0]
       [] s = "-2147483649" -> [neg |-> TRUE, p |-> 31, off |-> 1]
       [] s = "4294967296" -> [neg |-> FALSE, p |-> 32, off |-> 0]
       [] s = "9223372036854775808" -> [neg |-> FALSE, p |-> 63, off |-> 0]
       [] s = "-9223372036854775809" -> [neg |-> TRUE, p |-> 63, off |-> 1]
       [] s = "18446744073709551616" -> [neg |-> FALSE, p |-> 64, off |-> 0]]

\* the integer d as a number of the model
IntOf(d) == IF d.p < 0 THEN 0 ELSE IF d.neg THEN -(Pow2(d.p) + d.off) ELSE Pow2(d.p) + d.off

\* the integer d lies in the range of kind k: -2^(N-1) .. 2^(N-1) - 1 for a
\* signed kind of N bits, 0 .. 2^N - 1 for an unsigned one
InRange(d, k) ==
  IF k \in UnsignedKinds THEN (~d.neg \/ d.p < 0) /\ d.p < Bits(k)
  ELSE IF d.neg THEN d.p < Bits(k) - 1 \/ (d.p = Bits(k) - 1 /\ d.off = 0)
  ELSE d.p < Bits(k) - 1

\* the text and the directive of the converted field V of the source
ConvText == heap0[srcI.a].V
ConvKind == Field(SrcRootType, "V").conv
Converted == convertString(ConvText, ConvKind, SrcRootType, DstRootType, "V")

\* the call is of a source whose only field V is a string with a directive
ConvCall ==
  /\ WellFormed
  /\ Kind(SrcRootType) = "struct" /\ Kind(DstRootType) = "struct"
  /\ "V" \in Exported(SrcRootType)
  /\ FieldTypes(SrcRootType)["V"] = TString
  /\ ConvKind \in SupportedKinds

SrcReach ==
  IF srcI.isnil THEN {}
  ELSE Reach(heap0, srcI.a, IF Kind(srcI.t) = "ptr" THEN srcI.t ELSE PtrTo(srcI.t), ViewDepth)

\* every object the source reached holds what it held before the call
SrcKept == \A o \in SrcReach : snap[o.a] = heap0[o.a]

\* the destination record is one of the objects the source reaches
DstInSrc == ~dstI.isnil /\ dstI.a \in {o.a : o \in SrcReach}

\* C26 as stated: after any call the source and all it reaches are unchanged
C26_SourceKept == pc = "done" => SrcKept

\* C26: after a call whose destination record is not itself an object the
\* source reaches, returned with or without an error, the source record and
\* everything reachable from it hold what they held before the call.
C26_SourceKeptApart == pc = "done" /\ ~DstInSrc => SrcKept

\* a call that assigned fields, slices, maps and pointees left its source alone
C26_Witness ==
  /\ pc = "done" /\ ~DstInSrc /\ WellFormed
  /\ Cardinality(SrcReach) >= 3
  /\ snap[dstI.a] # heap0[dstI.a]
  /\ SrcKept

(***************************************************************************)
(* C27: the outcome against the order of iteration.                        *)
(***************************************************************************)
\* the destination record as a value, in heap h
DstValue(h) == DeepVal(h, h[dstI.a], DstRootType, ViewDepth)

\* the call made from the state before it, visiting fields and keys in order rot
RunIn(rot) == runMapping([h |-> heap0, c |-> <<>>], dstI, srcI, Config, rot)

\* C27: for the same dst, src and configuration the call has one outcome
\* whatever the order in which the destination fields and the map entries are
\* visited: the error returned (nil, or a MappingError with its FieldPath and
\* Reason) and the final destination are those of every other order.
C27_OrderIndependent ==
  pc = "done" /\ WellFormed =>
    \A rot \in Rots :
      \A r \in {RunIn(rot)} :
        /\ r.e = err
        /\ DstValue(r.m.h) = DstValue(snap)

(***************************************************************************)
(* C28: a sequence, map or pointer field whose assignment fails.           *)
(***************************************************************************)
\* the value at location l of type T as a value, in heap h
ViewAt(h, l, T) == DeepVal(h, Read(h, l), T, ViewDepth)

\* the context of the call's engine, for one order of iteration
CallCtx == [st |-> SrcRootType, dt |-> DstRootType, tag |-> Config.tagName,
            rot |-> [r |-> 0, rev |-> FALSE]]

\* the assignment of the one field at dst from src, made from the state
\* before the call: by assignValue at the root, by assignNestedValue in a
\* nested record
AssignAlone(root, dst, src, sT, dT, basePath, N, convertTo, depth) ==
  CallValue(IF root THEN "assignValue" ELSE "assignNestedValue", [h |-> heap0, c |-> <<>>], dst,
            src, sT, dT, CallCtx, IF root THEN N ELSE basePath, IF root THEN "" ELSE N,
            convertTo, depth)

RECURSIVE FailedKept(_, _, _, _, _, _, _)
\* in the destination record at dst (type dT, mapped from the record at src
\* of type sT with depth left for its fields), every sequence, map or
\* pointer field whose assignment fails holds, after the call, the value it
\* held before, address and content; so too in the records nested in place
FailedKept(root, dst, src, dT, sT, basePath, depth) ==
  \A N \in Exported(dT) :
    \A f \in Resolved(sT, N, Config.tagName) :
      IF Kind(FieldTypes(dT)[N]) = "struct" /\ Kind(FieldTypes(sT)[f]) = "struct"
      THEN depth > 1 =>
             FailedKept(FALSE, Sub(dst, N), Sub(src, f), FieldTypes(dT)[N], FieldTypes(sT)[f],
                        Dot(basePath, N), depth - 1)
      ELSE (/\ Kind(FieldTypes(dT)[N]) \in {"slice", "map", "ptr"}
            /\ IsErr(AssignAlone(root, Sub(dst, N), Sub(src, f), FieldTypes(sT)[f],
                                 FieldTypes(dT)[N], basePath, N, Field(sT, f).conv, depth)))
           => /\ Read(snap, Sub(dst, N)) = Read(heap0, Sub(dst, N))
              /\ ViewAt(snap, Sub(dst, N), FieldTypes(dT)[N])
                   = ViewAt(heap0, Sub(dst, N), FieldTypes(dT)[N])

\* C28: when the assignment of a sequence, map or pointer field of the
\* destination fails (an element, entry or pointee cannot be assigned, or
\* the depth limit is reached inside it), the field holds after the call
\* exactly what it held before: the new slice, map or pointee is stored only
\* after all of it was assigned.  This holds for the fields of the root
\* record and of the records nested in place.
C28_ContainerAtomic ==
  pc = "done" /\ WellFormed /\ err.kind = "MappingError" =>
    FailedKept(TRUE, At(dstI.a), At(srcI.a), DstRootType, SrcRootType, "", Config.maxDepth)

\* a failed call into a populated destination: the slice S, whose element's
\* field B cannot be assigned, holds what it held, while the call wrote
\* elsewhere in the record
C28_Witness ==
  /\ pc = "done" /\ WellFormed /\ err.kind = "MappingError"
  /\ DstRootType = StructT("AtomD")
  /\ heap0[srcI.a].S # Nil
  /\ heap0[dstI.a].S # Nil
  /\ snap[dstI.a].S = heap0[dstI.a].S
  /\ snap[snap[dstI.a].S] = heap0[heap0[dstI.a].S]
  /\ Len(snap) > Len(heap0)

(***************************************************************************)
(* C29: the outcome against the depth limit.                               *)
(***************************************************************************)
\* how far above the call's depth limit the limits compared with it go
MaxRaise == 2

\* the depth limits above the call's own: the next ones, and the default
Raised ==
  {Config.maxDepth + i : i \in 1..MaxRaise}
    \cup (IF DefaultMaxDepth > Config.maxDepth THEN {DefaultMaxDepth} ELSE {})

\* the call made from the state before it under depth limit d, in order rot
RunAtDepth(d, rot) ==
  runMapping([h |-> heap0, c |-> <<>>], dstI, srcI, [Config EXCEPT !.maxDepth = d], rot)

\* C29: a call that succeeded under depth limit D succeeds under every
\* limit D' > D with the same destination, and a call that failed for
\* another reason than the depth limit fails under every D' > D with the same
\* error and the same destination, the fields being visited in the same
\* order: raising the limit changes nothing but depth failures.
C29_DepthMonotone ==
  pc = "done" /\ WellFormed /\ err.Reason # DepthReason =>
    \A rot \in Rots :
      \A r0 \in {RunAtDepth(Config.maxDepth, rot)} :
        (r0.e = err /\ r0.m.h = snap) =>
          \A d \in Raised :
            \A r \in {RunAtDepth(d, rot)} :
              r.e = err /\ DstValue(r.m.h) = DstValue(snap)

\* a nested value mapped under a limit that just suffices: one less and the
\* call fails on the depth, so the limits above it are where the claim applies
C29_Witness ==
  /\ pc = "done" /\ WellFormed /\ err.kind = "nil"
  /\ Config.maxDepth \in 2..MaxD
  /\ snap[dstI.a] # heap0[dstI.a]
  /\ \A rot \in Rots : RunAtDepth(Config.maxDepth - 1, rot).e.Reason = DepthReason

(***************************************************************************)
(* C30: integers mapped into another width.                                *)
(***************************************************************************)
\* two integer types of different kinds
OtherWidth(S, D) == Kind(S) \in IntegerKinds /\ Kind(D) \in IntegerKinds /\ Kind(S) # Kind(D)

\* the destination value d (of type D) denotes the integers of the source
\* value s (of type S): the same integer for integer types of two widths,
\* the same elements for slices of them, and for maps the same keys (when
\* the key types are integers of two widths) with the same values (when the
\* value types are)
SameIntegers(d, D, s, S) ==
  CASE OtherWidth(S, D) -> d = s
    [] BothKind(S, D, "slice") /\ OtherWidth(S.e, D.e) ->
         /\ d.nil = s.nil
         /\ Len(d.s) = Len(s.s)
         /\ \A i \in 1..Len(s.s) : d.s[i] = s.s[i]
    [] BothKind(S, D, "map") /\ (OtherWidth(S.key, D.key) \/ OtherWidth(S.e, D.e)) ->
         /\ d.nil = s.nil
         /\ OtherWidth(S.key, D.key) => DOMAIN d.s = DOMAIN s.s
         /\ OtherWidth(S.e, D.e) /\ DOMAIN d.s = DOMAIN s.s =>
              \A k \in DOMAIN s.s : d.s[k] = s.s[k]
    [] OTHER -> TRUE

\* C30: when a call succeeds, every destination field that was assigned from
\* a source field holding integers of another width (the field itself, the
\* elements of a slice, the keys or the values of a map) denotes the same
\* integers as the source: no value is stored modulo 2^w and no two source
\* keys become one destination key.
C30_IntegersPreserved ==
  pc = "done" /\ WellFormed /\ err.kind = "nil" =>
    \A N \in Exported(DstRootType) :
      \A f \in Resolved(SrcRootType, N, Config.tagName) :
        ~(Config.ignoreZeroSource
          /\ IsZero(heap0[srcI.a][f], FieldTypes(SrcRootType)[f])) =>
          SameIntegers(FieldView(snap, dstI.a, DstRootType, N), FieldTypes(DstRootType)[N],
                       FieldView(heap0, srcI.a, SrcRootType, f), FieldTypes(SrcRootType)[f])

====
